---------------------------- MODULE Spec2Model ----------------------------
(***************************************************************************)
(* Webhook authentication of the mailgun-inbound package:                  *)
(*   verifyMailgunSignature, verifyRequestSignature and mailgunWebhook     *)
(* of src/unnamed/part_001.                                                *)
(*                                                                         *)
(* JavaScript values are tagged records; JavaScript strings are TLA+       *)
(* strings (Len, \o, SubSeq, Head and Tail work on them character by       *)
(* character).                                                             *)
(***************************************************************************)
EXTENDS Integers, Sequences, FiniteSets, TLC

VARIABLES
    now,      \* Math.floor(Date.now() / 1000): the wall clock, epoch seconds
    envKey,   \* process.env.MAILGUN_WEBHOOK_SIGNING_KEY
    call,     \* the last direct call of verifyMailgunSignature / verifyRequestSignature
    pc,       \* position of the running mailgunWebhook call
    req,      \* the request mailgunWebhook is handling
    keyArg,   \* the signingKey argument of that call (Undef: parameter omitted)
    correlationId, \* the local correlationId of that call
    checkedAt, \* the clock value its signature verification read
    isValid,  \* the local isValid of mailgunWebhook
    res,      \* the responses sent on res, in order
    ret       \* what the mailgunWebhook promise resolved to

vars == <<now, envKey, call, pc, req, keyArg, correlationId, checkedAt,
          isValid, res, ret>>

-----------------------------------------------------------------------------
(* Bounds of the model *)

\* number of hex characters of a digest (64 for SHA-256)
DigestLen == 4
\* the wall clock at the start, epoch seconds
Epoch0 == 1700000000
\* the number of seconds the wall clock may advance
MaxTicks == 2

(* Program constants *)

\* the replay window, seconds
Window == 900

-----------------------------------------------------------------------------
(* JavaScript values *)

Undef == [t |-> "undefined"]
Null  == [t |-> "null"]
NaNv  == [t |-> "NaN"]
S(s)  == [t |-> "string", s |-> s]
N(n)  == [t |-> "number", n |-> n]
O(f)  == [t |-> "object", o |-> f]
B(b)  == [t |-> "boolean", b |-> b]
A(a)  == [t |-> "array", a |-> a]
\* a finite number too large for a Date (1e20), which no TLC integer holds
Huge  == [t |-> "hugenumber"]

\* an object without fields
EmptyObj == O([k \in {} |-> Undef])

\* obj.field / obj[field], for an object value
Get(v, f) == IF f \in DOMAIN v.o THEN v.o[f] ELSE Undef

\* obj?.field
OptGet(v, f) ==
    CASE v.t = "object" -> Get(v, f)
      [] OTHER -> Undef      \* undefined?.f, null?.f, "str".f, (5).f

\* v.field where the code has made sure v is neither undefined nor null: a
\* string or a number has none of the fields read here
Prop(v, f) == OptGet(v, f)

\* typeof v === 'number'
IsNumber(v) == v.t \in {"number", "hugenumber", "NaN"}

\* ToBoolean
Truthy(v) ==
    CASE v.t = "undefined" -> FALSE
      [] v.t = "null"      -> FALSE
      [] v.t = "NaN"       -> FALSE
      [] v.t = "string"    -> v.s # ""
      [] v.t = "number"    -> v.n # 0
      [] v.t = "hugenumber" -> TRUE
      [] v.t = "boolean"   -> v.b
      [] v.t = "object"    -> TRUE
      [] v.t = "array"     -> TRUE

\* a || b
Or(a, b) == IF Truthy(a) THEN a ELSE b

-----------------------------------------------------------------------------
(* Characters and numbers *)

Digits == "0123456789"
HexDigits == "0123456789abcdef"
Alphabet ==
    "0123456789abcdefghijklmnopqrstuvwxyzABCDEFGHIJKLMNOPQRSTUVWXYZ -+[]._@<>"

CharAt(s, i) == SubSeq(s, i, i)

\* index of character c in string s, 0 when it does not occur
IndexIn(s, c) ==
    IF \E i \in 1..Len(s) : CharAt(s, i) = c
    THEN CHOOSE i \in 1..Len(s) : CharAt(s, i) = c
    ELSE 0

IsDigit(c) == IndexIn(Digits, c) > 0

RECURSIVE AllDigits(_)
AllDigits(s) == IF s = "" THEN TRUE ELSE IsDigit(Head(s)) /\ AllDigits(Tail(s))

RECURSIVE DigitsValue(_, _)
DigitsValue(s, acc) ==
    IF s = "" THEN acc
    ELSE DigitsValue(Tail(s), acc * 10 + (IndexIn(Digits, Head(s)) - 1))

RECURSIVE TrimLeft(_)
TrimLeft(s) == IF s # "" /\ Head(s) = " " THEN TrimLeft(Tail(s)) ELSE s

RECURSIVE TrimRight(_)
TrimRight(s) ==
    IF s # "" /\ CharAt(s, Len(s)) = " "
    THEN TrimRight(SubSeq(s, 1, Len(s) - 1)) ELSE s

Trim(s) == TrimRight(TrimLeft(s))

\* Number(string) on strings of digits, sign, blanks and letters that form no
\* numeric literal: blanks are trimmed, "" is 0, an optional sign and decimal
\* digits give the integer, anything else is NaN.
StringToNumber(s) ==
    LET u == Trim(s)
        signed == u # "" /\ Head(u) \in {"-", "+"}
        d == IF signed THEN Tail(u) ELSE u
    IN  IF u = "" THEN N(0)
        ELSE IF d = "" \/ ~AllDigits(d) THEN NaNv
        ELSE IF signed /\ Head(u) = "-" THEN N(0 - DigitsValue(d, 0))
        ELSE N(DigitsValue(d, 0))

\* Number(v)
ToNumber(v) ==
    CASE v.t = "number"    -> v
      [] v.t = "hugenumber" -> v
      [] v.t = "string"    -> StringToNumber(v.s)
      [] v.t = "null"      -> N(0)
      [] v.t = "boolean"   -> N(IF v.b THEN 1 ELSE 0)
      [] OTHER             -> NaNv      \* undefined, NaN, a plain object

RECURSIVE NatToString(_)
NatToString(n) ==
    IF n < 10 THEN CharAt(Digits, n + 1)
    ELSE NatToString(n \div 10) \o CharAt(Digits, (n % 10) + 1)

\* String(n) of an integer
NumberToString(n) == IF n < 0 THEN "-" \o NatToString(0 - n) ELSE NatToString(n)

\* String(v)
ToStr(v) ==
    CASE v.t = "string"    -> v.s
      [] v.t = "number"    -> NumberToString(v.n)
      [] v.t = "hugenumber" -> "100000000000000000000"
      [] v.t = "boolean"   -> IF v.b THEN "true" ELSE "false"
      [] v.t = "object"    -> "[object Object]"
      [] v.t = "undefined" -> "undefined"
      [] v.t = "null"      -> "null"
      [] v.t = "NaN"       -> "NaN"

\* a + b: concatenation when either operand is a string or an object,
\* numeric addition otherwise
Plus(a, b) ==
    IF a.t \in {"string", "object"} \/ b.t \in {"string", "object"}
    THEN S(ToStr(a) \o ToStr(b))
    ELSE LET x == ToNumber(a)
             y == ToNumber(b)
         IN  IF x.t = "NaN" \/ y.t = "NaN" THEN NaNv
             ELSE IF x.t = "hugenumber" \/ y.t = "hugenumber" THEN Huge
             ELSE N(x.n + y.n)

Abs(n) == IF n < 0 THEN 0 - n ELSE n

\* the comparison without Math.abs: only old timestamps are refused
AbsDiffExceedsOneSided(t, x, w) == IF x.t = "hugenumber" THEN FALSE ELSE t - x.n > w

\* Math.abs(t - x) > w, for an integer t and a number x that is not NaN
AbsDiffExceeds(t, x, w) == IF x.t = "hugenumber" THEN TRUE ELSE Abs(t - x.n) > w


-----------------------------------------------------------------------------
(* What a call may do: return a value or throw *)

Returned(v) == [threw |-> FALSE, v |-> v]
Thrown(e)   == [threw |-> TRUE, error |-> e]

-----------------------------------------------------------------------------
(* The crypto library, as far as the verifier uses it.  The digest is a     *)
(* keyed hash of DigestLen lowercase hex characters with the nesting of     *)
(* HMAC: an inner hash of key and message, an outer hash of key and inner.  *)

Modulus == 16 ^ DigestLen

RECURSIVE Mix(_, _)
Mix(h, s) ==
    IF s = "" THEN h
    ELSE Mix((h * 31 + IndexIn(Alphabet, Head(s))) % Modulus, Tail(s))

RECURSIVE ToHex(_, _)
ToHex(n, len) ==
    IF len = 0 THEN ""
    ELSE ToHex(n \div 16, len - 1) \o CharAt(HexDigits, (n % 16) + 1)

\* crypto.createHmac("sha256", key).update(msg).digest("hex"), key and msg strings
HmacHex(key, msg) ==
    LET inner == ToHex(Mix(Mix(54, key), msg), DigestLen)
    IN  ToHex(Mix(Mix(92, key), inner), DigestLen)

\* the same on JavaScript values: createHmac rejects a key that is no string,
\* update rejects data that is no string
createHmac(key, data) ==
    IF key.t # "string" THEN Thrown("TypeError")
    ELSE IF data.t # "string" THEN Thrown("TypeError")
    ELSE Returned(HmacHex(key.s, data.s))

\* Buffer.from(v): the bytes of a string; a number or a plain object is rejected
BufferFrom(v) ==
    IF v.t = "string" THEN Returned(v.s) ELSE Thrown("TypeError")

\* crypto.timingSafeEqual(a, b) on two byte strings
timingSafeEqual(a, b) ==
    IF Len(a) # Len(b) THEN Thrown("RangeError") ELSE Returned(a = b)

-----------------------------------------------------------------------------
(* verifyMailgunSignature *)

\* the digest taken over token followed by timestamp
SignatureCheckSwapped(token, timestamp, signature, signingKey) ==
    LET hmac == createHmac(signingKey, Plus(token, timestamp))
        sigBytes == BufferFrom(signature)
    IN  IF hmac.threw THEN hmac
        ELSE IF sigBytes.threw THEN sigBytes
        ELSE timingSafeEqual(hmac.v, sigBytes.v)

\* only the lengths of digest and signature are compared
SignatureCheckLengthOnly(token, timestamp, signature, signingKey) ==
    LET hmac == createHmac(signingKey, Plus(timestamp, token))
        sigBytes == BufferFrom(signature)
    IN  IF hmac.threw THEN hmac
        ELSE IF sigBytes.threw THEN sigBytes
        ELSE Returned(Len(hmac.v) = Len(sigBytes.v))

\* the try block: the digest and its constant-time comparison
SignatureCheck(token, timestamp, signature, signingKey) ==
    LET hmac == createHmac(signingKey, Plus(timestamp, token))
        sigBytes == BufferFrom(signature)
    IN  IF hmac.threw THEN hmac
        ELSE IF sigBytes.threw THEN sigBytes
        ELSE timingSafeEqual(hmac.v, sigBytes.v)

\* the try block without its catch
CatchFalseMissing(out) == out

\* try { ... } catch (error) { return false; }
CatchFalse(out) == IF out.threw THEN Returned(FALSE) ELSE out

\* the verifier that verifyRequestSignature and mailgunWebhook call; t is the
\* value of Math.floor(Date.now() / 1000) read by the call
verifyMailgunSignature(token, timestamp, signature, signingKey, t) ==
    IF ~Truthy(signingKey) \/ ~Truthy(token) \/ ~Truthy(timestamp)
          \/ ~Truthy(signature)
    THEN Returned(FALSE)
    ELSE LET requestTime == ToNumber(timestamp)
         IN  IF requestTime.t = "NaN" \/ AbsDiffExceeds(t, requestTime, Window)
             THEN Returned(FALSE)
             ELSE CatchFalse(SignatureCheck(token, timestamp, signature, signingKey))

\* the logging verifier of the first bundle: the same checks one by one, each
\* with its console.error line; log is the failure category written
Logged(out, line) == [threw |-> out.threw, v |-> out.v, log |-> line]

verifyMailgunSignatureLogged(token, timestamp, signature, signingKey, t) ==
    IF ~Truthy(signingKey)
    THEN Logged(Returned(FALSE), "MAILGUN_WEBHOOK_SIGNING_KEY missing")
    ELSE IF ~Truthy(token) \/ ~Truthy(timestamp) \/ ~Truthy(signature)
    THEN Logged(Returned(FALSE), "Missing required signature parameters")
    ELSE LET requestTime == ToNumber(timestamp)
         IN  IF requestTime.t = "NaN"
             THEN Logged(Returned(FALSE), "Invalid timestamp format")
             ELSE IF AbsDiffExceeds(t, requestTime, Window)
             THEN Logged(Returned(FALSE), "Expired timestamp")
             ELSE LET out == SignatureCheck(token, timestamp, signature, signingKey)
                  IN  IF out.threw
                      THEN Logged(Returned(FALSE), "Signature verification error")
                      ELSE Logged(out, "")

-----------------------------------------------------------------------------
(* Dates *)

\* how the message of a Node ERR_INVALID_ARG_TYPE error describes the value
\* it received; echo tells whether the runtime quotes a primitive value in
\* it (current Node versions do, early ones name the type only)
Received(v, echo) ==
    CASE v.t = "number"     -> "type number"
                               \o (IF echo THEN " (" \o NumberToString(v.n) \o ")" ELSE "")
      [] v.t = "hugenumber" -> "type number" \o (IF echo THEN " (1e+20)" ELSE "")
      [] v.t = "boolean"    -> "type boolean"
                               \o (IF echo THEN (IF v.b THEN " (true)" ELSE " (false)") ELSE "")
      [] v.t = "string"     -> "type string" \o (IF echo THEN " ('" \o v.s \o "')" ELSE "")
      [] v.t = "object"     -> "an instance of Object"
      [] v.t = "array"      -> "an instance of Array"
      [] v.t = "null"       -> "null"
      [] OTHER              -> "undefined"

\* error.message of what the try block throws: createHmac rejects a key that
\* is no string, update rejects data that is no string, Buffer.from rejects
\* a signature that is no string, timingSafeEqual rejects unequal lengths
CaughtMessage(token, timestamp, signature, signingKey, echo) ==
    LET data == Plus(timestamp, token)
    IN  IF signingKey.t # "string"
        THEN "The \"key\" argument must be of type string or an instance of ArrayBuffer, Buffer, TypedArray, DataView, KeyObject, or CryptoKey. Received "
               \o Received(signingKey, echo)
        ELSE IF data.t # "string"
        THEN "The \"data\" argument must be of type string or an instance of Buffer, TypedArray, or DataView. Received "
               \o Received(data, echo)
        ELSE IF signature.t # "string"
        THEN "The first argument must be of type string or an instance of Buffer, ArrayBuffer, or Array or an Array-like Object. Received "
               \o Received(signature, echo)
        ELSE "Input buffers must have the same byte length"

\* the arguments of the console.error call the logging verifier makes, <<>>
\* when it makes none
ConsoleError(token, timestamp, signature, signingKey, t, echo) ==
    LET l == verifyMailgunSignatureLogged(token, timestamp, signature, signingKey, t)
        requestTime == ToNumber(timestamp)
    IN  CASE l.log = "" -> <<>>
          [] l.log = "Expired timestamp" ->
               <<S("[MailgunInbound] Expired timestamp"),
                 O([currentTime |-> N(t), requestTime |-> requestTime,
                    difference |-> IF requestTime.t = "number"
                                   THEN N(Abs(t - requestTime.n)) ELSE requestTime])>>
          [] l.log = "Signature verification error" ->
               <<S("[MailgunInbound] Signature verification error:"),
                 S(CaughtMessage(token, timestamp, signature, signingKey, echo))>>
          [] OTHER -> <<S("[MailgunInbound] " \o l.log)>>

RECURSIVE PadLeft(_, _)
PadLeft(s, len) == IF Len(s) >= len THEN s ELSE PadLeft("0" \o s, len)

\* new Date(sec * 1000).toISOString() for whole epoch seconds in the years
\* 0000..9999: the proleptic Gregorian date and the time of day, UTC
EpochToISO(sec) ==
    LET days == sec \div 86400
        sod  == sec % 86400
        z    == days + 719468
        era  == z \div 146097
        doe  == z - era * 146097
        yoe  == (doe - doe \div 1460 + doe \div 36524 - doe \div 146096) \div 365
        doy  == doe - (365 * yoe + yoe \div 4 - yoe \div 100)
        mp   == (5 * doy + 2) \div 153
        d    == doy - (153 * mp + 2) \div 5 + 1
        m    == IF mp < 10 THEN mp + 3 ELSE mp - 9
        y    == yoe + era * 400 + (IF m <= 2 THEN 1 ELSE 0)
    IN  PadLeft(NatToString(y), 4) \o "-" \o PadLeft(NatToString(m), 2) \o "-"
          \o PadLeft(NatToString(d), 2) \o "T"
          \o PadLeft(NatToString(sod \div 3600), 2) \o ":"
          \o PadLeft(NatToString((sod % 3600) \div 60), 2) \o ":"
          \o PadLeft(NatToString(sod % 60), 2) \o ".000Z"

\* new Date(v * 1000).toISOString() for a number v: a RangeError when the
\* date is invalid
toISOString(v) ==
    IF v.t = "number" THEN Returned(S(EpochToISO(v.n))) ELSE Thrown("RangeError")

EventTimeAsGiven(timestamp) == Returned(timestamp)

\* typeof timestamp === 'number' ? new Date(timestamp * 1000).toISOString() : timestamp
EventTime(timestamp) ==
    IF IsNumber(timestamp) THEN toISOString(timestamp) ELSE Returned(timestamp)

-----------------------------------------------------------------------------
(* verifyRequestSignature *)

\* a built-in key stands in when neither argument nor environment gives one
DefaultKeyBuiltIn(signingKey, env) ==
    IF signingKey = Undef THEN (IF Truthy(env) THEN env ELSE S("k1")) ELSE signingKey

\* signingKey = process.env.MAILGUN_WEBHOOK_SIGNING_KEY: the default applies
\* when the argument is undefined
DefaultKey(signingKey, env) == IF signingKey = Undef THEN env ELSE signingKey

\* the triple read from the top level only
RequestTripleTopOnly(body) ==
    [token     |-> Prop(body, "token"),
     timestamp |-> Prop(body, "timestamp"),
     signature |-> Prop(body, "signature")]

\* the signature triple of a body: each of the three is read from the body's
\* signature entry and, when that gives nothing, from the top level
RequestTriple(body) ==
    LET sig == Prop(body, "signature")
    IN  [token     |-> Or(OptGet(sig, "token"), Prop(body, "token")),
         timestamp |-> Or(OptGet(sig, "timestamp"), Prop(body, "timestamp")),
         signature |-> Or(OptGet(sig, "signature"), Prop(body, "signature"))]

\* r is the request (an object with headers and body), t the clock
verifyRequestSignature(r, signingKey, env, t) ==
    IF ~Truthy(r) \/ ~Truthy(Prop(r, "body")) THEN Returned(FALSE)
    ELSE LET tr == RequestTriple(Prop(r, "body"))
         IN  verifyMailgunSignature(tr.token, tr.timestamp, tr.signature,
                                    DefaultKey(signingKey, env), t)

-----------------------------------------------------------------------------
(* mailgunWebhook *)

\* the triple as mailgunWebhook reads it
WebhookTriple(body) ==
    LET sig == Prop(body, "signature")
    IN  [token     |-> Or(OptGet(sig, "token"), Prop(body, "token")),
         timestamp |-> Or(OptGet(sig, "timestamp"), Prop(body, "timestamp")),
         signature |-> Or(OptGet(sig, "signature"), Prop(body, "signature"))]

CorrelationIdSynthesized(r, t, rnd) == S("mg-" \o NumberToString(t) \o "000-" \o rnd)

\* req.headers['x-request-id'] || req.headers['x-correlation-id'] || `mg-...`;
\* rnd is Math.random().toString(36).substr(2, 9)
CorrelationId(r, t, rnd) ==
    Or(Prop(Prop(r, "headers"), "x-request-id"),
       Or(Prop(Prop(r, "headers"), "x-correlation-id"),
          S("mg-" \o NumberToString(t) \o "000-" \o rnd)))

Response(status, body) == [status |-> status, body |-> body]

InvalidRequest(cid) ==
    Response(400, O([received |-> B(FALSE), error |-> S("Invalid request"),
                     correlationId |-> cid]))

InvalidSignature(cid) ==
    Response(401, O([received |-> B(FALSE), error |-> S("Invalid signature"),
                     correlationId |-> cid]))

\* a payload without event kind classified as an unknown event
MissingEventTypeAsUnknown(cid) ==
    Response(200, O([received |-> B(TRUE), error |-> S("Missing event type"),
                     status |-> S("unknown"), correlationId |-> cid]))

MissingEventType(cid) ==
    Response(200, O([received |-> B(TRUE), error |-> S("Missing event type"),
                     correlationId |-> cid]))

\* a processing error answered with a server error
ProcessingFailedAs500(cid, t) ==
    Response(500, O([received |-> B(FALSE),
                     error |-> S("Processing failed"),
                     correlationId |-> cid,
                     timestamp |-> S(EpochToISO(t))]))

ProcessingFailed(cid, t) ==
    Response(200, O([received |-> B(TRUE),
                     error |-> S("Processing failed but webhook acknowledged"),
                     correlationId |-> cid,
                     timestamp |-> S(EpochToISO(t))]))

\* the deliveryStatus object of a delivered event
DeliveredStatus(ds) ==
    O([code |-> Prop(ds, "code"), message |-> Prop(ds, "message"),
       description |-> Prop(ds, "description"), tls |-> Prop(ds, "tls"),
       certificateVerified |-> Prop(ds, "certificate-verified")])

\* the deliveryStatus object of a bounced or failed event
FailureStatus(ds) ==
    O([code |-> Prop(ds, "code"), message |-> Prop(ds, "message"),
       description |-> Prop(ds, "description"),
       attemptNo |-> Prop(ds, "attempt-no"),
       sessionSeconds |-> Prop(ds, "session-seconds")])

SeverityAsGiven(eventData) == Prop(eventData, "severity")

\* eventData.severity || 'permanent'
Severity(eventData) == Or(Prop(eventData, "severity"), S("permanent"))

UnknownFieldsBare(eventData) == [status |-> S("unknown")]

\* default: responseData.status = "unknown"; responseData.fullEventData = eventData
UnknownFields(eventData) == [status |-> S("unknown"), fullEventData |-> eventData]

\* the fields the switch adds for an event kind; at is the converted timestamp
KindFields(eventData, event, at, url, reason) ==
    LET ds == Prop(eventData, "delivery-status")
        withStatus(f, o) == IF Truthy(ds) THEN f @@ [deliveryStatus |-> o] ELSE f
    IN  CASE event = S("delivered") ->
               withStatus([status |-> S("delivered"), deliveredAt |-> at],
                          DeliveredStatus(ds))
          [] event = S("opened") ->
               [status |-> S("opened"), openedAt |-> at,
                clientInfo |-> Or(Prop(eventData, "client-info"), Null),
                geolocation |-> Or(Prop(eventData, "geolocation"), Null),
                userAgent |-> Or(OptGet(Prop(eventData, "client-info"), "clientName"), Null)]
          [] event = S("clicked") ->
               [status |-> S("clicked"), url |-> url, clickedAt |-> at,
                clientInfo |-> Or(Prop(eventData, "client-info"), Null),
                geolocation |-> Or(Prop(eventData, "geolocation"), Null)]
          [] event = S("bounced") ->
               withStatus([status |-> S("bounced"), reason |-> reason, bouncedAt |-> at,
                           severity |-> Severity(eventData)],
                          FailureStatus(ds))
          [] event = S("complained") ->
               [status |-> S("complained"), complainedAt |-> at]
          [] event = S("failed") ->
               withStatus([status |-> S("failed"), reason |-> reason, failedAt |-> at],
                          FailureStatus(ds))
          [] event = S("unsubscribed") ->
               [status |-> S("unsubscribed"), unsubscribedAt |-> at]
          [] event = S("stored") ->
               [status |-> S("stored"), storedAt |-> at]
          [] OTHER -> UnknownFields(eventData)

EventIdLaterFirst(eventData) ==
    Or(Prop(eventData, "event-id"), Or(Prop(eventData, "id"), Null))

\* const eventId = eventData.id || eventData['event-id'] || null
EventId(eventData) ==
    Or(Prop(eventData, "id"), Or(Prop(eventData, "event-id"), Null))

\* the part of mailgunWebhook after the signature check, up to its response:
\* the response sent and the value returned, or the error thrown on the way
ProcessEvent(body, cid, t) ==
    LET eventData == Or(Prop(body, "event-data"), EmptyObj)
        event     == Prop(eventData, "event")
        eventId   == EventId(eventData)
        recipient == Prop(eventData, "recipient")
        messageId == Or(OptGet(OptGet(Prop(eventData, "message"), "headers"), "message-id"),
                        Or(Prop(eventData, "message-id"),
                           Or(Prop(eventData, "messageId"), Null)))
        url       == Prop(eventData, "url")
        timestamp == Or(Prop(eventData, "timestamp"), N(t))
        domain    == Or(OptGet(Prop(eventData, "domain"), "name"), Prop(eventData, "domain"))
        reason    == Or(OptGet(Prop(eventData, "delivery-status"), "description"),
                        Or(Prop(eventData, "reason"),
                           Or(Prop(eventData, "failure-reason"), Null)))
        at        == EventTime(timestamp)
    IN  IF ~Truthy(event)
        THEN Returned([response |-> MissingEventType(cid), value |-> Null])
        ELSE IF at.threw THEN at
        ELSE LET responseData ==
                     O([received |-> B(TRUE), event |-> event, eventId |-> eventId,
                        recipient |-> recipient, messageId |-> messageId,
                        timestamp |-> at.v, domain |-> domain,
                        correlationId |-> cid,
                        processedAt |-> S(EpochToISO(t))]
                       @@ KindFields(eventData, event, at.v, url, reason))
             IN  Returned([response |-> Response(200, responseData),
                           value |-> responseData])

\* the promise of an async function whose body threw outside every try
Rejected(e) == [t |-> "rejected", error |-> e]

CatchRethrows(out, cid, t) ==
    IF out.threw THEN [response |-> ProcessingFailedAs500(cid, t),
                       value |-> Rejected(out.error)]
    ELSE out.v

CatchReturnsBody(out, cid, t) ==
    IF out.threw THEN [response |-> ProcessingFailed(cid, t),
                       value |-> ProcessingFailed(cid, t).body]
    ELSE out.v

\* } catch (error) { ... res.status(200).json(errorResponse); return null; }
CatchAcknowledge(out, cid, t) ==
    IF out.threw THEN [response |-> ProcessingFailed(cid, t), value |-> Null]
    ELSE out.v

-----------------------------------------------------------------------------
(* JSON.parse, for texts of blanks, null, true, false, integers, strings      *)
(* without escapes, arrays and objects                                         *)

First(s) == IF s = "" THEN "" ELSE Head(s)

StartsWith(s, p) == Len(s) >= Len(p) /\ SubSeq(s, 1, Len(p)) = p

Drop(s, n) == SubSeq(s, n + 1, Len(s))

\* s up to the first occurrence of character c, which must occur
Before(s, c) == SubSeq(s, 1, IndexIn(s, c) - 1)

\* s after the first occurrence of character c, which must occur
After(s, c) == Drop(s, IndexIn(s, c))

RECURSIVE LeadingDigits(_)
LeadingDigits(s) ==
    IF s # "" /\ IsDigit(Head(s)) THEN Head(s) \o LeadingDigits(Tail(s)) ELSE ""

Parsed(v, rest) == [ok |-> TRUE, v |-> v, rest |-> rest]
SyntaxError == [ok |-> FALSE]

\* a JSON number: an optional minus, then 0 or a digit string without
\* leading zero
ParseNumber(s) ==
    LET neg == First(s) = "-"
        u   == IF neg THEN Tail(s) ELSE s
        d   == IF First(u) = "0" THEN "0" ELSE LeadingDigits(u)
    IN  IF d = "" THEN SyntaxError
        ELSE Parsed(N(IF neg THEN 0 - DigitsValue(d, 0) ELSE DigitsValue(d, 0)),
                    Drop(u, Len(d)))

RECURSIVE ParseValue(_), ParseItems(_, _), ParseMembers(_, _)

ParseValue(text) ==
    LET s == TrimLeft(text)
        c == First(s)
    IN  CASE c = "[" ->
               IF First(TrimLeft(Tail(s))) = "]"
               THEN Parsed(A(<<>>), Tail(TrimLeft(Tail(s))))
               ELSE ParseItems(Tail(s), <<>>)
          [] c = "{" ->
               IF First(TrimLeft(Tail(s))) = "}"
               THEN Parsed(EmptyObj, Tail(TrimLeft(Tail(s))))
               ELSE ParseMembers(Tail(s), [k \in {} |-> Undef])
          [] c = "\"" ->
               IF IndexIn(Tail(s), "\"") = 0 THEN SyntaxError
               ELSE Parsed(S(Before(Tail(s), "\"")), After(Tail(s), "\""))
          [] StartsWith(s, "null")  -> Parsed(Null, Drop(s, 4))
          [] StartsWith(s, "true")  -> Parsed(B(TRUE), Drop(s, 4))
          [] StartsWith(s, "false") -> Parsed(B(FALSE), Drop(s, 5))
          [] c = "-" \/ (c # "" /\ IsDigit(c)) -> ParseNumber(s)
          [] OTHER -> SyntaxError

\* the elements of an array after "[" or ",", acc those read so far
ParseItems(text, acc) ==
    LET r == ParseValue(text)
    IN  IF ~r.ok THEN SyntaxError
        ELSE LET s == TrimLeft(r.rest)
             IN  CASE First(s) = "," -> ParseItems(Tail(s), Append(acc, r.v))
                   [] First(s) = "]" -> Parsed(A(Append(acc, r.v)), Tail(s))
                   [] OTHER -> SyntaxError

\* the members of an object after "{" or ",", acc those read so far; a name
\* read again replaces the earlier member
ParseMembers(text, acc) ==
    LET s == TrimLeft(text)
    IN  IF First(s) # "\"" \/ IndexIn(Tail(s), "\"") = 0 THEN SyntaxError
        ELSE LET name  == Before(Tail(s), "\"")
                 colon == TrimLeft(After(Tail(s), "\""))
             IN  IF First(colon) # ":" THEN SyntaxError
                 ELSE LET r == ParseValue(Tail(colon))
                      IN  IF ~r.ok THEN SyntaxError
                          ELSE LET u    == TrimLeft(r.rest)
                                   acc2 == (name :> r.v) @@ acc
                               IN  CASE First(u) = "," -> ParseMembers(Tail(u), acc2)
                                     [] First(u) = "}" -> Parsed(O(acc2), Tail(u))
                                     [] OTHER -> SyntaxError

\* JSON.parse(v): the text is String(v); a SyntaxError when it is no JSON
JSONparse(v) ==
    LET r == ParseValue(ToStr(v))
    IN  IF r.ok /\ TrimLeft(r.rest) = "" THEN Returned(r.v) ELSE Thrown("SyntaxError")

-----------------------------------------------------------------------------
(* The field extractors *)

\* Array.isArray
IsArray(v) == v.t = "array"

\* parseHeaders
parseHeaders(headers) ==
    IF IsArray(headers) THEN headers
    ELSE LET r == JSONparse(Or(headers, S("[]")))
         IN  IF r.threw THEN A(<<>>) ELSE r.v

NoBracketMatch(s) == <<0, 0>>

\* value.match(/<(.+?)>/): the place of the first "<" that has a ">" at least
\* two characters later, and of the first such ">"; <<0, 0>> without a match
BracketMatch(s) ==
    LET closes(i) == {j \in (i + 2)..Len(s) : CharAt(s, j) = ">"}
        opens == {i \in 1..Len(s) : CharAt(s, i) = "<" /\ closes(i) # {}}
    IN  IF opens = {} THEN <<0, 0>>
        ELSE LET i == CHOOSE x \in opens : \A y \in opens : x <= y
                 j == CHOOSE x \in closes(i) : \A y \in closes(i) : x <= y
             IN  <<i, j>>

\* extractEmail; the parameter defaults to ""
extractEmail(value) ==
    IF ~Truthy(value) \/ value.t # "string" THEN ""
    ELSE LET m == BracketMatch(value.s)
         IN  IF m[1] > 0 THEN Trim(SubSeq(value.s, m[1] + 1, m[2] - 1))
             ELSE Trim(value.s)

\* value.split(',')
RECURSIVE Split(_, _)
Split(s, sep) ==
    IF IndexIn(s, sep) = 0 THEN <<s>>
    ELSE <<Before(s, sep)>> \o Split(After(s, sep), sep)

KeepAll(q) == q

RECURSIVE NonEmptyOnly(_)
NonEmptyOnly(q) ==
    IF q = <<>> THEN <<>>
    ELSE (IF Head(q) = "" THEN <<>> ELSE <<Head(q)>>) \o NonEmptyOnly(Tail(q))

\* extractEmails
extractEmails(value) ==
    IF ~Truthy(value) \/ value.t # "string" THEN <<>>
    ELSE LET parts == Split(value.s, ",")
         IN  NonEmptyOnly([i \in 1..Len(parts) |-> extractEmail(S(Trim(parts[i])))])

KeepBrackets(s) == s

\* value.replace(/^<|>$/g, '')
StripBrackets(s) ==
    LET a == IF First(s) = "<" THEN Tail(s) ELSE s
    IN  IF a # "" /\ CharAt(a, Len(a)) = ">" THEN SubSeq(a, 1, Len(a) - 1) ELSE a

\* cleanMessageId
cleanMessageId(value) ==
    IF ~Truthy(value) \/ value.t # "string" THEN Null
    ELSE Or(S(Trim(StripBrackets(value.s))), Null)

-----------------------------------------------------------------------------
(* processEmailData *)

RECURSIVE ToLower(_)
ToLower(s) ==
    IF s = "" THEN ""
    ELSE LET c == Head(s)
             i == IndexIn("ABCDEFGHIJKLMNOPQRSTUVWXYZ", c)
         IN  (IF i > 0 THEN CharAt("abcdefghijklmnopqrstuvwxyz", i) ELSE c)
               \o ToLower(Tail(s))

\* v.length
LengthOf(v) ==
    CASE v.t = "array"  -> N(Len(v.a))
      [] v.t = "string" -> N(Len(v.s))
      [] v.t = "object" -> Get(v, "length")
      [] OTHER          -> Undef

\* v > 0
Positive(v) == LET x == ToNumber(v) IN x.t = "hugenumber" \/ (x.t = "number" /\ x.n > 0)

\* one element of (req.files || []).map(...); index counts from 0
AttachmentMeta(file, index, t) ==
    LET name == Prop(file, "originalname")
    IN  IF Truthy(name) /\ name.t # "string" THEN Thrown("TypeError")
        ELSE Returned(O(
          [filename |-> Or(name, S("attachment-" \o NumberToString(t) \o "000-"
                                       \o NumberToString(index))),
           originalname |-> Or(name, Null),
           mimetype |-> Or(Prop(file, "mimetype"), S("application/octet-stream")),
           size |-> Or(Prop(file, "size"), N(0)),
           extension |-> IF Truthy(name)
                         THEN LET parts == Split(name.s, ".")
                              IN  S(ToLower(parts[Len(parts)]))
                         ELSE Null,
           encoding |-> Or(Prop(file, "encoding"), Null),
           fieldname |-> Or(Prop(file, "fieldname"), Null),
           buffer |-> Or(Prop(file, "buffer"), Null)]))

\* (req.files || []).map(...): a TypeError when files is no array
ProcessAttachments(files, t) ==
    LET list == Or(files, A(<<>>))
    IN  IF ~IsArray(list) THEN Thrown("TypeError")
        ELSE LET metas == [i \in 1..Len(list.a) |-> AttachmentMeta(list.a[i], i - 1, t)]
             IN  IF \E i \in 1..Len(metas) : metas[i].threw THEN Thrown("TypeError")
                 ELSE Returned(A([i \in 1..Len(metas) |-> metas[i].v]))

RECURSIVE ProjectHeadersFirstWins(_, _)
ProjectHeadersFirstWins(entries, headersObj) ==
    IF entries = <<>> THEN headersObj
    ELSE LET header == Head(entries)
         IN  ProjectHeadersFirstWins(Tail(entries),
                 IF IsArray(header) /\ Len(header.a) >= 2
                 THEN headersObj @@ (ToStr(header.a[1]) :> header.a[2])
                 ELSE headersObj)

\* the forEach body over the parsed headers: every entry that is an array of
\* two or more elements sets headersObj[key] = value
RECURSIVE ProjectHeaders(_, _)
ProjectHeaders(entries, headersObj) ==
    IF entries = <<>> THEN headersObj
    ELSE LET header == Head(entries)
         IN  ProjectHeaders(Tail(entries),
                 IF IsArray(header) /\ Len(header.a) >= 2
                 THEN (ToStr(header.a[1]) :> header.a[2]) @@ headersObj
                 ELSE headersObj)

\* headersObj of processEmailData: forEach is called when the parsed value
\* is truthy and its length is positive, and only an array has a forEach
HeadersObject(messageHeaders) ==
    LET parsedHeaders == parseHeaders(messageHeaders)
    IN  IF Truthy(parsedHeaders) /\ Positive(LengthOf(parsedHeaders))
        THEN IF IsArray(parsedHeaders)
             THEN Returned(O(ProjectHeaders(parsedHeaders.a, [k \in {} |-> Undef])))
             ELSE Thrown("TypeError")
        ELSE Returned(EmptyObj)

StringList(q) == A([i \in 1..Len(q) |-> S(q[i])])

CcValueHeaderFirst(body, h) ==
    Or(Get(h, "Cc"), Or(Get(h, "CC"), Or(Prop(body, "cc"), S(""))))

\* const ccValue = cc || headersObj.Cc || headersObj.CC || ""
CcValue(body, h) ==
    Or(Prop(body, "cc"), Or(Get(h, "Cc"), Or(Get(h, "CC"), S(""))))

ToValueHeaderFirst(body, h) ==
    Or(Get(h, "To"), Or(Get(h, "TO"), Or(Prop(body, "recipient"), S(""))))

\* const toValue = recipient || headersObj.To || headersObj.TO || ""
ToValue(body, h) ==
    Or(Prop(body, "recipient"), Or(Get(h, "To"), Or(Get(h, "TO"), S(""))))

\* the emailData object of processEmailData, from the body, the attachment
\* metadata and the header object h; t is the clock read for receivedAt, t2
\* the clock read for timestamp
EmailDataOf(body, attachments, h, t, t2) ==
    O([messageId |-> cleanMessageId(
           Or(Get(h, "Message-ID"), Or(Get(h, "Message-Id"), Null))),
       from |-> S(extractEmail(Or(Prop(body, "sender"), Prop(body, "from")))),
       to |-> StringList(extractEmails(ToValue(body, h))),
       cc |-> StringList(extractEmails(CcValue(body, h))),
       subject |-> Or(Prop(body, "subject"), S("")),
       text |-> Or(Prop(body, "body-plain"), Or(Prop(body, "stripped-text"), S(""))),
       html |-> Or(Prop(body, "body-html"), Or(Prop(body, "stripped-html"), S(""))),
       headers |-> h,
       attachments |-> attachments,
       attachmentCount |-> ToNumber(Or(Prop(body, "attachment-count"), N(0))),
       receivedAt |-> S(EpochToISO(t)),
       timestamp |-> S(EpochToISO(t2))])

\* what processEmailData gives once the attachments were mapped and the
\* headers projected: either of them may have thrown
ProcessedOf(body, processedAttachments, headersObj, t, t2) ==
    IF processedAttachments.threw THEN processedAttachments
    ELSE IF headersObj.threw THEN headersObj
    ELSE Returned(O([emailData |-> EmailDataOf(body, processedAttachments.v,
                                               headersObj.v, t, t2),
                     token |-> Prop(body, "token"),
                     timestamp |-> Prop(body, "timestamp"),
                     signature |-> Prop(body, "signature")]))

\* processEmailData(req); t is the clock read while the record is built, t2
\* the clock read for its last field
processEmailData(r, t, t2) ==
    IF ~Truthy(r) \/ ~Truthy(Prop(r, "body"))
    THEN Thrown("Error: Invalid request: missing body")
    ELSE ProcessedOf(Prop(r, "body"),
                     ProcessAttachments(Prop(r, "files"), t),
                     HeadersObject(Prop(Prop(r, "body"), "message-headers")),
                     t, t2)

-----------------------------------------------------------------------------
(* The inbound router and middleware of index.js *)

\* the replay window of the inbound verifier, seconds
InboundWindow == 900

\* the digest lines of the inbound verifier: the digest of timestamp + token
\* under the key is compared with the signature by ===; nothing is caught
InboundDigestCheck(token, timestamp, signature, signingKey) ==
    LET hmac == createHmac(signingKey, Plus(timestamp, token))
    IN  IF hmac.threw THEN hmac
        ELSE Returned(signature.t = "string" /\ hmac.v = signature.s)

\* verifyMailgunSignature of index.js at clock t: no key gives false, a
\* timestamp further than the window from the clock gives false (a timestamp
\* that is no number passes: the comparison with NaN is false), then the digest
verifyInboundSignature(token, timestamp, signature, signingKey, t) ==
    IF ~Truthy(signingKey) THEN Returned(FALSE)
    ELSE LET requestTime == ToNumber(timestamp)
         IN  IF requestTime.t # "NaN" /\ AbsDiffExceeds(t, requestTime, InboundWindow)
             THEN Returned(FALSE)
             ELSE InboundDigestCheck(token, timestamp, signature, signingKey)

\* one element of (req.files || []).map(...) in index.js
InboundAttachmentMeta(file, t) ==
    LET name == Prop(file, "originalname")
    IN  IF Truthy(name) /\ name.t # "string" THEN Thrown("TypeError")
        ELSE Returned(O(
          [filename |-> Or(name, S("attachment-" \o NumberToString(t) \o "000")),
           originalname |-> Or(name, Null),
           mimetype |-> Or(Prop(file, "mimetype"), Null),
           size |-> Or(Prop(file, "size"), N(0)),
           extension |-> IF Truthy(name)
                         THEN LET parts == Split(name.s, ".")
                              IN  S(parts[Len(parts)])
                         ELSE Null,
           encoding |-> Or(Prop(file, "encoding"), Null),
           fieldname |-> Or(Prop(file, "fieldname"), Null)]))

\* (req.files || []).map(...) in index.js
InboundAttachments(files, t) ==
    LET list == Or(files, A(<<>>))
    IN  IF ~IsArray(list) THEN Thrown("TypeError")
        ELSE LET metas == [i \in 1..Len(list.a) |-> InboundAttachmentMeta(list.a[i], t)]
             IN  IF \E i \in 1..Len(metas) : metas[i].threw THEN Thrown("TypeError")
                 ELSE Returned(A([i \in 1..Len(metas) |-> metas[i].v]))

\* the emailData object of index.js's processEmailData, from the body, the
\* attachment metadata and the header object h
InboundEmailData(body, attachments, h, t, t2) ==
    O([messageId |-> cleanMessageId(
           Or(Get(h, "Message-ID"), Or(Get(h, "Message-Id"), Null))),
       from |-> S(extractEmail(Or(Prop(body, "sender"), Prop(body, "from")))),
       to |-> StringList(extractEmails(ToValue(body, h))),
       cc |-> StringList(extractEmails(CcValue(body, h))),
       subject |-> Or(Prop(body, "subject"), S("")),
       text |-> Or(Prop(body, "body-plain"), Or(Prop(body, "stripped-text"), S(""))),
       html |-> Or(Prop(body, "body-html"), Or(Prop(body, "stripped-html"), S(""))),
       headers |-> h,
       attachments |-> attachments,
       attachmentCount |-> ToNumber(Or(Prop(body, "attachment-count"), N(0))),
       receivedAt |-> S(EpochToISO(t)),
       timestamp |-> S(EpochToISO(t2))])

\* what processEmailData of index.js gives once the attachments were mapped
\* and the headers projected: either of them may have thrown
InboundProcessed(body, processedAttachments, headersObj, t, t2) ==
    IF processedAttachments.threw THEN processedAttachments
    ELSE IF headersObj.threw THEN headersObj
    ELSE Returned(O([emailData |-> InboundEmailData(body, processedAttachments.v,
                                                    headersObj.v, t, t2),
                     token |-> Prop(body, "token"),
                     timestamp |-> Prop(body, "timestamp"),
                     signature |-> Prop(body, "signature")]))

\* processEmailData of index.js: req.body is destructured without a check
processInboundEmailData(r, t, t2) ==
    IF Prop(r, "body").t \in {"undefined", "null"} THEN Thrown("TypeError")
    ELSE InboundProcessed(Prop(r, "body"),
                          InboundAttachments(Prop(r, "files"), t),
                          HeadersObject(Prop(Prop(r, "body"), "message-headers")),
                          t, t2)

\* a callback given in the options: a function that returns or throws
Callback(throws) == [t |-> "function", throws |-> throws]

\* onEmailReceived && typeof onEmailReceived === 'function'
IsFunction(v) == v.t = "function"

Acknowledged == Response(200, O([received |-> B(TRUE)]))

Unauthorized == Response(401, O([error |-> S("Invalid Mailgun signature")]))

MissingFields ==
    Response(200, O([received |-> B(TRUE), error |-> S("Missing required fields")]))

\* the guard on the sender alone
MissingRequiredFieldsFromOnly(emailData) == ~Truthy(Get(emailData, "from"))

\* !emailData.from || !emailData.to || emailData.to.length === 0
MissingRequiredFields(emailData) ==
    \/ ~Truthy(Get(emailData, "from"))
    \/ ~Truthy(Get(emailData, "to"))
    \/ Len(Get(emailData, "to").a) = 0

\* what one request leaves behind: the responses sent in order, the
\* invocations of onEmailReceived in order (each with its argument), and
\* req.emailData
Handled(sent, invoked, attached) ==
    [sent |-> sent, invoked |-> invoked, emailData |-> attached]

\* the handler after the signature was checked: verified is what the check
\* gave, true when none is required
InboundVerified(emailData, verified, onEmailReceived, attach) ==
    IF verified.threw THEN Handled(<<Acknowledged>>, <<>>, Undef)
    ELSE IF ~verified.v THEN Handled(<<Unauthorized>>, <<>>, Undef)
    ELSE IF MissingRequiredFields(emailData) THEN Handled(<<MissingFields>>, <<>>, Undef)
    ELSE Handled(<<Acknowledged>>,
                 IF IsFunction(onEmailReceived) THEN <<emailData>> ELSE <<>>,
                 IF attach THEN emailData ELSE Undef)

\* the handler after processEmailData returned p at clock t
InboundChecked(p, requireSignature, signingKey, onEmailReceived, attach, t) ==
    InboundVerified(Get(p, "emailData"),
                    IF requireSignature
                    THEN verifyInboundSignature(Get(p, "token"), Get(p, "timestamp"),
                                                Get(p, "signature"), signingKey, t)
                    ELSE Returned(TRUE),
                    onEmailReceived, attach)

\* the handler with the outcome of processEmailData in hand
InboundProcessedThen(processed, requireSignature, signingKey, onEmailReceived, attach, t) ==
    IF processed.threw THEN Handled(<<Acknowledged>>, <<>>, Undef)
    ELSE InboundChecked(processed.v, requireSignature, signingKey, onEmailReceived,
                        attach, t)

\* the handler registered by createMailgunInboundRouter (attach FALSE) and the
\* last handler of createMailgunInboundMiddleware (attach TRUE), run on
\* request r at clock t, the clock being t2 from the end of processEmailData.
\* Whatever is thrown before a response was sent is answered by the outer
\* catch; what the callback throws is caught around its call.
InboundHandler(r, requireSignature, signingKey, onEmailReceived, attach, t, t2) ==
    InboundProcessedThen(processInboundEmailData(r, t, t2), requireSignature,
                         signingKey, onEmailReceived, attach, t2)

-----------------------------------------------------------------------------
(* The inputs of the model *)

\* the key the sender signs with, and another key
SenderKey == "k1"
OtherKey  == "k2"

\* what the sender computes for a timestamp and a token
Sign(key, timestamp, token) == HmacHex(key, timestamp \o token)

NextHex(c) == CharAt(HexDigits, (IndexIn(HexDigits, c) % 16) + 1)

\* s with its i-th character replaced by c
Replace(s, i, c) == SubSeq(s, 1, i - 1) \o c \o SubSeq(s, i + 1, Len(s))

RECURSIVE ToUpper(_)
ToUpper(s) ==
    IF s = "" THEN ""
    ELSE LET c == Head(s)
             i == IndexIn("abcdef", c)
         IN  (IF i > 0 THEN CharAt("ABCDEF", i) ELSE c) \o ToUpper(Tail(s))

\* the distances between a request's timestamp and the clock
Skews == {0 - (Window + 1), 0 - Window, 1 - Window, 0, Window - 1, Window, Window + 1}

KeyInputs == {Undef, S(""), S(SenderKey), S(OtherKey), N(7)}

TokenInputs == {Undef, S(""), S("tok1"), N(5), EmptyObj}

TimestampInputs(t) ==
    {S(NumberToString(t + d)) : d \in Skews}
      \cup {Undef, S(""), S("abc"), S(" " \o NumberToString(t)), N(t), Huge}

\* the signatures tried for a timestamp and a token: the sender's, one made
\* with another key, and the sender's with one character changed, in another
\* case, longer, shorter, empty, absent or no string
SignatureInputs(timestamp, token) ==
    LET good == Sign(SenderKey, ToStr(timestamp), ToStr(token))
    IN  {S(good), S(Sign(OtherKey, ToStr(timestamp), ToStr(token)))}
          \cup {S(Replace(good, i, NextHex(CharAt(good, i)))) : i \in 1..DigestLen}
          \cup {S(good \o "0"), S(SubSeq(good, 1, DigestLen - 1)), S(ToUpper(good)),
                S(""), Undef, N(1), EmptyObj}

\* the triples a webhook request may carry
TripleInputs(t) ==
    {[token |-> tok, timestamp |-> ts, signature |-> sg] :
        tok \in {Undef, S(""), S("tok1")},
        ts  \in {S(NumberToString(t + d)) : d \in {0 - (Window + 1), 0 - Window, 0, Window}}
                  \cup {Undef, S("abc")},
        sg  \in {S(Sign(SenderKey, ToStr(S(NumberToString(t))), "tok1")),
                 S(Sign(SenderKey, ToStr(S(NumberToString(t - Window))), "tok1")),
                 S(Sign(OtherKey, ToStr(S(NumberToString(t))), "tok1")),
                 S(Sign(SenderKey, ToStr(S(NumberToString(t))), "tok1") \o "0"),
                 Undef}}

\* a correctly signed triple
GoodTriple(t) ==
    [token |-> S("tok1"), timestamp |-> S(NumberToString(t)),
     signature |-> S(Sign(SenderKey, NumberToString(t), "tok1"))]

\* what may stand at the top level beside a signature object
TopInputs(t) ==
    {[token |-> Undef, timestamp |-> Undef],
     [token |-> S("decoy"), timestamp |-> S("1")],
     [token |-> S("tok1"), timestamp |-> S(NumberToString(t))]}

DeliveryStatus550 ==
    O([code |-> N(550), message |-> S("mailbox full"), description |-> S("no space")]
      @@ ("attempt-no" :> N(1)) @@ ("session-seconds" :> N(2)))

EventDataInputs(t) ==
    {Undef, EmptyObj, O([event |-> S("")]),
     O([timestamp |-> Huge]),
     O([event |-> S("delivered"), id |-> S("ev1"), recipient |-> S("a@x.com"),
        timestamp |-> N(t - 5)] @@ ("delivery-status" :> DeliveryStatus550)),
     O([event |-> S("bounced"), recipient |-> S("a@x.com"),
        timestamp |-> S("2024-01-01T00:00:00Z")]
       @@ ("delivery-status" :> DeliveryStatus550)),
     O([event |-> S("bazinga"), id |-> S("ev2")]),
     O([event |-> S("opened"), timestamp |-> Huge])}

\* events of every kind, with and without the fields their kind reads
KindInputs(t) ==
    {O([event |-> S("bounced"), id |-> S("ev3"), timestamp |-> N(t - 7)]),
     O([event |-> S("bounced"), severity |-> S("temporary"), reason |-> S("greylisted"),
        timestamp |-> N(t)] @@ ("delivery-status" :> DeliveryStatus550)),
     O([event |-> S("bounced"), severity |-> S("")]
       @@ ("delivery-status" :> O([code |-> N(421)]))),
     O([event |-> S("opened"), recipient |-> S("a@x.com"), timestamp |-> N(t - 1)]
       @@ ("client-info" :> O([clientName |-> S("Firefox")]))),
     O([event |-> S("clicked"), url |-> S("https://x.com/a"), timestamp |-> N(t)]),
     O([event |-> S("complained"), timestamp |-> S("yesterday")]),
     O([event |-> S("failed"), reason |-> S("generic")]
       @@ ("failure-reason" :> S("dns")) @@ ("delivery-status" :> DeliveryStatus550)),
     O([event |-> S("unsubscribed"), timestamp |-> N(t + 3)]),
     O([event |-> S("stored"), timestamp |-> N(Epoch0 - 100000)]),
     O([event |-> S("Delivered"), timestamp |-> N(t)]),
     O([event |-> S("delivered"), id |-> S("ev0"), timestamp |-> N(0)]),
     O([event |-> N(7)])}

\* events whose common fields have several candidates: all of them given,
\* the earlier ones empty, only the last one given, none given
PrecedenceInputs(t) ==
    {O([event |-> S("failed"), id |-> S("e1"), reason |-> S("generic"),
        messageId |-> S("m-camel"),
        message |-> O([headers |-> O("message-id" :> S("m-nested"))]),
        domain |-> O([name |-> S("d.com")]), timestamp |-> N(t)]
       @@ ("event-id" :> S("e2")) @@ ("message-id" :> S("m-top"))
       @@ ("failure-reason" :> S("dns")) @@ ("delivery-status" :> DeliveryStatus550)),
     O([event |-> S("failed"), id |-> S(""), reason |-> S(""),
        messageId |-> S("m-camel"),
        message |-> O([headers |-> O("message-id" :> S(""))]),
        domain |-> O([name |-> S("")]), timestamp |-> N(t)]
       @@ ("event-id" :> S("e2")) @@ ("message-id" :> S("m-top"))
       @@ ("failure-reason" :> S("dns"))
       @@ ("delivery-status" :> O([code |-> N(550), description |-> S("")]))),
     O([event |-> S("failed"), id |-> Null, reason |-> S("generic"),
        messageId |-> S("m-camel"), message |-> O([headers |-> EmptyObj]),
        domain |-> S("d.com"), timestamp |-> N(t)]
       @@ ("event-id" :> S("e2")) @@ ("message-id" :> Null)),
     O([event |-> S("bounced"), messageId |-> S("m-camel"), timestamp |-> N(t)]
       @@ ("event-id" :> S("e2")) @@ ("failure-reason" :> S("dns"))),
     O([event |-> S("failed"), id |-> N(0), timestamp |-> N(t)]
       @@ ("event-id" :> S("e2")))}

HeaderInputs ==
    {EmptyObj, O("x-request-id" :> S("rid-1")), O("x-correlation-id" :> S("cid-2")),
     O(("x-request-id" :> S("rid-1")) @@ ("x-correlation-id" :> S("cid-2")))}

RandomSuffixes == {"a1b2c3d4e"}

Request(headers, body) == O([headers |-> headers, body |-> body])

\* inbound shape: the triple at the top level
TopBody(tr, ed) ==
    O([token |-> tr.token, timestamp |-> tr.timestamp, signature |-> tr.signature]
      @@ ("event-data" :> ed))

\* event shape: the triple in the signature object, top beside it
NestedBody(tr, top, ed) ==
    O([signature |-> O([token |-> tr.token, timestamp |-> tr.timestamp,
                        signature |-> tr.signature]),
       token |-> top.token, timestamp |-> top.timestamp]
      @@ ("event-data" :> ed))

DeliveredEvent(t) ==
    O([event |-> S("delivered"), id |-> S("ev1"), timestamp |-> N(t)])

\* requests that differ in how they are signed
AuthRequests(t) ==
    {Request(EmptyObj, TopBody(tr, DeliveredEvent(t))) : tr \in TripleInputs(t)}
      \cup {Request(EmptyObj, NestedBody(tr, top, DeliveredEvent(t))) :
              tr \in TripleInputs(t), top \in TopInputs(t)}

\* correctly signed requests that differ in what they carry
EventRequests(t) ==
    {Request(h, NestedBody(GoodTriple(t), [token |-> Undef, timestamp |-> Undef], ed)) :
        h \in HeaderInputs, ed \in EventDataInputs(t)}
      \cup {Request(h, TopBody(GoodTriple(t), ed)) :
              h \in HeaderInputs, ed \in EventDataInputs(t)}
      \cup {Request(EmptyObj,
                    NestedBody(GoodTriple(t), [token |-> Undef, timestamp |-> Undef], ed)) :
              ed \in KindInputs(t) \cup PrecedenceInputs(t)}

\* requests without a usable body
BodilessRequests ==
    {Request(h, b) : h \in HeaderInputs, b \in {Undef, Null, S(""), S("raw")}}

RequestInputs(t) == AuthRequests(t) \cup EventRequests(t) \cup BodilessRequests

KeyArgs == {Undef, S(""), S(SenderKey), S(OtherKey)}

EnvKeys == {Undef, S(""), S(SenderKey)}

\* what the message-headers field may hold: absent, empty, the list itself,
\* the list serialized, and texts that decode to something else or to nothing
HeaderListInputs ==
    {Undef, S(""),
     A(<<A(<<S("To"), S("h@x.com")>>), A(<<S("Cc"), S("c@x.com")>>)>>),
     S("[[\"To\",\"h@x.com\"],[\"To\",\"i@x.com\"],[\"Message-ID\",\"<m1@x.com>\"]]"),
     S("[1,[\"a\"],[\"CC\",\"c@y.com\",\"x\"]]"),
     S("[]"), S("[["), S("null"), S("5"), S("{}"), S("\"abc\""),
     S("{\"length\":2}"), S("not json"), N(5), EmptyObj}

\* the other fields of an inbound body
FieldInputs ==
    {[sender |-> sn, from |-> fr, recipient |-> rc, cc |-> c, subject |-> sb,
      count |-> n] :
        sn \in {Undef, S("A <a@b.com>"), N(3)},
        fr \in {Undef, S("f@b.com")},
        rc \in {Undef, S(""), S("c@d.com, E <e@d.com>,,")},
        c  \in {Undef, S("z@d.com")},
        sb \in {Undef, S("Hi")},
        n  \in {Undef, S("3"), S("abc"), N(2)}}

PlainFields ==
    [sender |-> S("A <a@b.com>"), from |-> Undef, recipient |-> S("c@d.com"),
     cc |-> Undef, subject |-> S("Hi"), count |-> Undef]

InboundBody(f, mh) ==
    O([sender |-> f.sender, from |-> f.from, recipient |-> f.recipient, cc |-> f.cc,
       subject |-> f.subject, token |-> S("tok1")]
      @@ ("message-headers" :> mh) @@ ("attachment-count" :> f.count))

FileInputs ==
    {Undef, A(<<>>),
     A(<<O([originalname |-> S("Report.Final.PDF"), size |-> N(10)]),
         O([fieldname |-> S("attachment-2")])>>)}

InboundRequest(body, files) == O([body |-> body, files |-> files])

\* one entry of a header list, or none when the header is absent
Entry(name, v) == IF v = Undef THEN <<>> ELSE <<A(<<S(name), v>>)>>

\* bodies whose cc and recipient fields meet Cc, CC, To and TO headers
AddressedBodies ==
    {O([cc |-> c, recipient |-> rc]
       @@ ("message-headers" :>
             A(Entry("Cc", hc) \o Entry("CC", hcc) \o Entry("To", ht) \o Entry("TO", htt))) ) :
        c   \in {Undef, S(""), S("z@d.com")},
        rc  \in {Undef, S(""), S(",,"), S("c@d.com, E <e@d.com>")},
        hc  \in {Undef, S(""), S("c@x.com")},
        hcc \in {Undef, S("C <cc@y.com>")},
        ht  \in {Undef, S("h@x.com")},
        htt \in {Undef, S("T <t@y.com>, u@y.com")}}

\* bodies that differ in their Message-ID and Message-Id headers
IdentifiedBodies ==
    {O("message-headers" :> A(Entry("Message-ID", a) \o Entry("Message-Id", b))) :
        a \in {Undef, S(""), S("<m1@x.com>"), S("m2@x.com"), S("<>"), S("< >"),
               S(" <m3@x.com> "), S("<m4@x.com"), N(5)},
        b \in {Undef, S("<alt@x.com>")}}

\* bodies that differ in their sender and from fields
SentBodies ==
    {O([sender |-> sn, from |-> fr]) :
        sn \in {Undef, S(""), S(" "), S("A <a@b.com>"), S("a@b.com"), N(3)},
        fr \in {Undef, S(""), S("F <f@b.com>")}}

\* what extractEmail may be given
AddressInputs ==
    {Undef, Null, S(""), S("  "), S("Jane Doe <jane@example.com>"),
     S("jane@example.com"), S(" jane@example.com "), S("<a@x.com> <b@y.com>"),
     S("A < a@x.com >"), S("a<>b"), S("<>"), S("<<a>"), S("x>y<z"), S("<a"),
     N(5), B(TRUE), EmptyObj, A(<<>>)}

\* what extractEmails may be given
AddressListInputs ==
    {Undef, Null, S(""), S("a@x.com, b@y.com,, c@z.com"), S(",,"), S(" , "),
     S("a@x.com,a@x.com"), S("A <a@x.com>, B <b@y.com>"), S("Doe, Jane <j@x.com>"),
     S("<>,b@y.com"), S("solo@x.com"), N(5), EmptyObj, A(<<>>)}

\* inbound requests: every message-headers value with plain fields and every
\* files value, every combination of fields without headers and files, and
\* requests without a body
InboundRequests ==
    {InboundRequest(InboundBody(PlainFields, mh), fl) :
        mh \in HeaderListInputs, fl \in FileInputs}
      \cup {InboundRequest(InboundBody(f, Undef), Undef) : f \in FieldInputs}
      \cup {InboundRequest(b, Undef) :
              b \in AddressedBodies \cup IdentifiedBodies \cup SentBodies}
      \cup {Undef, InboundRequest(Undef, Undef), InboundRequest(S(""), A(<<>>)),
            InboundRequest(S("raw"), Undef)}

\* the signature fields of a form posted to the inbound route at clock t:
\* each of them present or absent, the timestamp current, older than the
\* window or no number, the signature made with the sender's key or another
RouterTriples(t) ==
    UNION {{[token |-> tok, timestamp |-> ts, signature |-> sg] :
              sg \in {Undef, S(Sign(SenderKey, ToStr(ts), ToStr(tok))),
                      S(Sign(OtherKey, ToStr(ts), ToStr(tok)))}} :
             tok \in {Undef, S("tok1")},
             ts  \in {Undef, S(NumberToString(t)),
                      S(NumberToString(t - (InboundWindow + 1))), S("abc")}}

\* the other fields of the form: sender, recipient and message-headers, all
\* there, the sender missing, the recipient missing, the recipient found in
\* the headers only, and headers that decode to a string
RouterFields ==
    {[sender |-> S("A <a@b.com>"), recipient |-> S("c@d.com, E <e@d.com>"), mh |-> Undef],
     [sender |-> Undef, recipient |-> S("c@d.com, E <e@d.com>"), mh |-> Undef],
     [sender |-> S("A <a@b.com>"), recipient |-> Undef, mh |-> Undef],
     [sender |-> S("A <a@b.com>"), recipient |-> Undef,
      mh |-> S("[[\"To\",\"h@x.com\"]]")],
     [sender |-> S("A <a@b.com>"), recipient |-> S("c@d.com, E <e@d.com>"),
      mh |-> S("\"abc\"")]}

\* the parsed form: the signature fields and the other fields
RouterBodies(t) ==
    {O([token |-> tr.token, timestamp |-> tr.timestamp, signature |-> tr.signature,
        sender |-> f.sender, recipient |-> f.recipient]
       @@ ("message-headers" :> f.mh)) :
        tr \in RouterTriples(t), f \in RouterFields}

\* the requests the route's handler sees after the form and upload parsers:
\* a body object and a list of files
RouterRequests(t) ==
    {InboundRequest(b, A(<<>>)) : b \in RouterBodies(t)}
      \cup {InboundRequest(
              O([token |-> GoodTriple(t).token, timestamp |-> GoodTriple(t).timestamp,
                 signature |-> GoodTriple(t).signature, sender |-> S("a@b.com"),
                 recipient |-> S("c@d.com")]),
              A(<<O([originalname |-> S("Report.PDF"), size |-> N(10)])>>))}

\* options.signingKey
RouterKeys == {Undef, S(OtherKey)}

\* options.onEmailReceived: absent, a function that returns and a function
\* that throws
CallbackInputs == {Undef, Callback(FALSE), Callback(TRUE)}

-----------------------------------------------------------------------------
(* The state machine *)

Pending == [t |-> "pending"]
NoCall  == [fn |-> "none"]

Init ==
    /\ now = Epoch0
    /\ envKey \in EnvKeys
    /\ call = NoCall
    /\ pc = "idle"
    /\ req = Undef
    /\ keyArg = Undef
    /\ correlationId = Undef
    /\ checkedAt = 0
    /\ isValid = Undef
    /\ res = <<>>
    /\ ret = Pending

Fresh == pc = "idle" /\ call = NoCall

\* the wall clock advances
Tick ==
    /\ now < Epoch0 + MaxTicks
    /\ now' = now + 1
    /\ UNCHANGED <<envKey, call, pc, req, keyArg, correlationId, checkedAt,
                   isValid, res, ret>>

\* a direct call of verifyMailgunSignature
CallVerify ==
    /\ Fresh
    /\ \E key \in KeyInputs, tok \in TokenInputs, ts \in TimestampInputs(now) :
         \E sg \in SignatureInputs(ts, tok), echo \in BOOLEAN :
            call' = [fn |-> "verifyMailgunSignature",
                     token |-> tok, timestamp |-> ts, signature |-> sg,
                     signingKey |-> key, at |-> now,
                     out |-> verifyMailgunSignature(tok, ts, sg, key, now),
                     logged |-> verifyMailgunSignatureLogged(tok, ts, sg, key, now),
                     console |-> ConsoleError(tok, ts, sg, key, now, echo)]
    /\ UNCHANGED <<now, envKey, pc, req, keyArg, correlationId, checkedAt,
                   isValid, res, ret>>

\* a direct call of verifyRequestSignature
CallVerifyRequest ==
    /\ Fresh
    /\ \E r \in AuthRequests(now) \cup BodilessRequests \cup {Undef}, key \in KeyArgs :
         call' = [fn |-> "verifyRequestSignature", req |-> r, signingKey |-> key,
                  at |-> now,
                  out |-> verifyRequestSignature(r, key, envKey, now)]
    /\ UNCHANGED <<now, envKey, pc, req, keyArg, correlationId, checkedAt,
                   isValid, res, ret>>

\* a direct call of processEmailData; the clock may advance while it runs
CallProcessEmailData ==
    /\ Fresh
    /\ \E r \in InboundRequests, t2 \in {now, now + 1} :
         /\ t2 <= Epoch0 + MaxTicks
         /\ now' = t2
         /\ call' = [fn |-> "processEmailData", req |-> r, at |-> now,
                     out |-> processEmailData(r, now, t2)]
    /\ UNCHANGED <<envKey, pc, req, keyArg, correlationId, checkedAt,
                   isValid, res, ret>>

\* a direct call of parseHeaders
CallParseHeaders ==
    /\ Fresh
    /\ \E h \in HeaderListInputs :
         call' = [fn |-> "parseHeaders", arg |-> h, out |-> Returned(parseHeaders(h))]
    /\ UNCHANGED <<now, envKey, pc, req, keyArg, correlationId, checkedAt,
                   isValid, res, ret>>

\* a direct call of extractEmail
CallExtractEmail ==
    /\ Fresh
    /\ \E v \in AddressInputs :
         call' = [fn |-> "extractEmail", arg |-> v, out |-> Returned(S(extractEmail(v)))]
    /\ UNCHANGED <<now, envKey, pc, req, keyArg, correlationId, checkedAt,
                   isValid, res, ret>>

\* a direct call of extractEmails
CallExtractEmails ==
    /\ Fresh
    /\ \E v \in AddressListInputs :
         call' = [fn |-> "extractEmails", arg |-> v,
                  out |-> Returned(StringList(extractEmails(v)))]
    /\ UNCHANGED <<now, envKey, pc, req, keyArg, correlationId, checkedAt,
                   isValid, res, ret>>

\* signingKey = process.env.MAILGUN_WEBHOOK_SIGNING_KEY in the options of
\* the router and of the middleware
OptionKey(signingKey, env) == IF signingKey = Undef THEN env ELSE signingKey

\* one request handled by the router made by createMailgunInboundRouter
CallRouter ==
    /\ Fresh
    /\ \E r \in RouterRequests(now), rs \in BOOLEAN, k \in RouterKeys,
          cb \in CallbackInputs, t2 \in {now, now + 1} :
         /\ t2 <= Epoch0 + MaxTicks
         /\ now' = t2
         /\ call' = [fn |-> "router", req |-> r, requireSignature |-> rs,
                     signingKey |-> OptionKey(k, envKey), onEmailReceived |-> cb,
                     at |-> t2,
                     out |-> InboundHandler(r, rs, OptionKey(k, envKey), cb, FALSE,
                                            now, t2)]
    /\ UNCHANGED <<envKey, pc, req, keyArg, correlationId, checkedAt,
                   isValid, res, ret>>

\* one request handled by the middleware made by createMailgunInboundMiddleware
CallMiddleware ==
    /\ Fresh
    /\ \E r \in RouterRequests(now), rs \in BOOLEAN, k \in RouterKeys,
          cb \in CallbackInputs, t2 \in {now, now + 1} :
         /\ t2 <= Epoch0 + MaxTicks
         /\ now' = t2
         /\ call' = [fn |-> "middleware", req |-> r, requireSignature |-> rs,
                     signingKey |-> OptionKey(k, envKey), onEmailReceived |-> cb,
                     at |-> t2,
                     out |-> InboundHandler(r, rs, OptionKey(k, envKey), cb, TRUE,
                                            now, t2)]
    /\ UNCHANGED <<envKey, pc, req, keyArg, correlationId, checkedAt,
                   isValid, res, ret>>

\* mailgunWebhook(req, res, signingKey) is called: the correlation id is set
Start ==
    /\ Fresh
    /\ \E r \in RequestInputs(now), key \in KeyArgs, rnd \in RandomSuffixes :
         /\ req' = r
         /\ keyArg' = key
         /\ correlationId' = CorrelationId(r, now, rnd)
    /\ pc' = "body"
    /\ UNCHANGED <<now, envKey, call, checkedAt, isValid, res, ret>>

\* if (!req || !req.body): 400 and null
CheckBody ==
    /\ pc = "body"
    /\ IF ~Truthy(req) \/ ~Truthy(Prop(req, "body"))
       THEN /\ res' = Append(res, InvalidRequest(correlationId))
            /\ ret' = Null
            /\ pc' = "done"
       ELSE /\ pc' = "verify"
            /\ UNCHANGED <<res, ret>>
    /\ UNCHANGED <<now, envKey, call, req, keyArg, correlationId, checkedAt, isValid>>

\* the signature check: 401 and null when it fails; the check runs inside
\* the try block, so an error thrown by it would end in the catch
Verify ==
    /\ pc = "verify"
    /\ LET tr == WebhookTriple(Prop(req, "body"))
           ok == verifyMailgunSignature(tr.token, tr.timestamp, tr.signature,
                                        DefaultKey(keyArg, envKey), now)
       IN  /\ checkedAt' = now
           /\ IF ok.threw
              THEN /\ res' = Append(res, ProcessingFailed(correlationId, now))
                   /\ ret' = Null
                   /\ pc' = "done"
                   /\ UNCHANGED isValid
              ELSE IF ~ok.v
              THEN /\ isValid' = B(FALSE)
                   /\ res' = Append(res, InvalidSignature(correlationId))
                   /\ ret' = Null
                   /\ pc' = "done"
              ELSE /\ isValid' = B(TRUE)
                   /\ pc' = "process"
                   /\ UNCHANGED <<res, ret>>
    /\ UNCHANGED <<now, envKey, call, req, keyArg, correlationId>>

\* the rest of the try block and its catch: one response, one return value
Process ==
    /\ pc = "process"
    /\ LET out == CatchAcknowledge(ProcessEvent(Prop(req, "body"), correlationId, now),
                                   correlationId, now)
       IN  /\ res' = Append(res, out.response)
           /\ ret' = out.value
    /\ pc' = "done"
    /\ UNCHANGED <<now, envKey, call, req, keyArg, correlationId, checkedAt, isValid>>

\* the call is over; the next one starts afresh
Reset ==
    /\ pc = "done" \/ call # NoCall
    /\ call' = NoCall
    /\ pc' = "idle"
    /\ req' = Undef
    /\ keyArg' = Undef
    /\ correlationId' = Undef
    /\ checkedAt' = 0
    /\ isValid' = Undef
    /\ res' = <<>>
    /\ ret' = Pending
    /\ UNCHANGED <<now, envKey>>

Next ==
    \/ Tick
    \/ CallVerify
    \/ CallVerifyRequest
    \/ CallProcessEmailData
    \/ Start
    \/ CheckBody
    \/ Verify
    \/ Process
    \/ Reset

Spec == Init /\ [][Next]_vars

\* the inbound-mail functions alone: each is called on its own
NextInbound ==
    \/ Tick
    \/ CallProcessEmailData
    \/ CallParseHeaders
    \/ CallExtractEmail
    \/ CallExtractEmails
    \/ Reset

SpecInbound == Init /\ [][NextInbound]_vars

\* the inbound router and middleware: each handles one request at a time
NextRouter ==
    \/ Tick
    \/ CallRouter
    \/ CallMiddleware
    \/ Reset

SpecRouter == Init /\ [][NextRouter]_vars

-----------------------------------------------------------------------------
(* What the claims speak of *)

\* a non-empty string
NonEmpty(v) == v.t = "string" /\ v.s # ""

\* a string or absent, as the parameters are documented
Documented(v) == v.t \in {"string", "undefined", "null"}

\* the stated condition of a valid signature, checked at clock value t
Authentic(token, timestamp, signature, signingKey, t) ==
    /\ NonEmpty(signingKey) /\ NonEmpty(token)
    /\ NonEmpty(timestamp) /\ NonEmpty(signature)
    /\ StringToNumber(timestamp.s).t = "number"
    /\ Abs(t - StringToNumber(timestamp.s).n) <= Window
    /\ signature.s = HmacHex(signingKey.s, timestamp.s \o token.s)

VerifyCalled == call.fn = "verifyMailgunSignature"

DocumentedCall ==
    /\ VerifyCalled
    /\ Documented(call.token) /\ Documented(call.timestamp)
    /\ Documented(call.signature) /\ Documented(call.signingKey)

\* C1: verifyMailgunSignature returns true if and only if key, token,
\* timestamp and signature are non-empty, the timestamp parses to a number at
\* most 900 seconds from the clock, and the signature is the lowercase hex
\* digest of timestamp followed by token under the key; a valid signature with
\* any one character changed is refused.
C1_VerifyIffAuthentic ==
    DocumentedCall =>
        /\ call.out = Returned(Authentic(call.token, call.timestamp, call.signature,
                                         call.signingKey, call.at))
        /\ call.logged.v = call.out.v
        /\ call.out.v =>
             \A i \in 1..Len(call.signature.s), j \in 1..Len(HexDigits) :
                CharAt(HexDigits, j) # CharAt(call.signature.s, i) =>
                   verifyMailgunSignature(
                       call.token, call.timestamp,
                       S(Replace(call.signature.s, i, CharAt(HexDigits, j))),
                       call.signingKey, call.at) = Returned(FALSE)

\* a correctly signed call was accepted
C1_Witness ==
    /\ DocumentedCall
    /\ call.signingKey = S(SenderKey) /\ call.token = S("tok1")
    /\ NonEmpty(call.timestamp)
    /\ call.signature = S(Sign(SenderKey, call.timestamp.s, "tok1"))
    /\ call.out = Returned(TRUE)

\* the call carries the sender's signature for its own timestamp and token
CorrectlySigned ==
    /\ VerifyCalled
    /\ NonEmpty(call.signingKey) /\ NonEmpty(call.token)
    /\ NonEmpty(call.timestamp) /\ NonEmpty(call.signature)
    /\ StringToNumber(call.timestamp.s).t = "number"
    /\ call.signature.s = Sign(call.signingKey.s, call.timestamp.s, call.token.s)

\* timestamp minus clock of the call
Skew == StringToNumber(call.timestamp.s).n - call.at

\* C2: a correctly signed call is accepted when its timestamp is at most 900
\* seconds from the clock, 900 included, and refused when it is further away,
\* in the past and in the future alike.
C2_ReplayWindow ==
    CorrectlySigned =>
        /\ (Skew >= 0 - Window /\ Skew <= Window) => call.out = Returned(TRUE)
        /\ (Skew < 0 - Window \/ Skew > Window) => call.out = Returned(FALSE)

\* a timestamp exactly 900 seconds in the future was accepted
C2_Witness == CorrectlySigned /\ Skew = Window /\ call.out = Returned(TRUE)

-----------------------------------------------------------------------------
(* mailgunWebhook: what the claims speak of *)

Body == Prop(req, "body")

HasBody == Truthy(Body)

\* the call has ended
Done == pc = "done"

\* the triple the call verified carries a valid signature for the key in
\* force, at the clock value the verification read
Verified ==
    LET tr == WebhookTriple(Body)
    IN  Authentic(tr.token, tr.timestamp, tr.signature,
                  DefaultKey(keyArg, envKey), checkedAt)

\* the one response of a finished call
Sent == res[1]

\* C4: mailgunWebhook verifies the signature before anything else it does with
\* the body: it reaches event processing, and returns a record, only for a
\* request whose triple verified, and the response to a request that fails
\* verification holds nothing but received, error and correlationId.
C4_VerifiedBeforeEvent ==
    /\ pc = "process" => Verified /\ res = <<>>
    /\ (Done /\ ret # Null) => Verified /\ ret.t = "object"
    /\ (Done /\ HasBody /\ ~Verified) =>
          /\ ret = Null
          /\ Len(res) = 1
          /\ DOMAIN Sent.body.o = {"received", "error", "correlationId"}
          /\ Sent.body.o.received = B(FALSE)
          /\ Sent.body.o.correlationId = correlationId

\* a verified request ended with its event record returned
C4_Witness ==
    /\ Done /\ Verified
    /\ ret.t = "object" /\ Get(ret, "event") = S("delivered")

\* C5: the response is 400 exactly when the body is missing, 401 exactly when
\* the body is there and the signature does not verify, and 200 otherwise.
C5_StatusMapping ==
    Done =>
        /\ Len(res) = 1
        /\ Sent.status \in {200, 400, 401}
        /\ Sent.status = 400 <=> ~HasBody
        /\ Sent.status = 401 <=> (HasBody /\ ~Verified)
        /\ Sent.status = 200 <=> (HasBody /\ Verified)

\* a verified request whose processing raised an error was acknowledged
C5_Witness ==
    /\ Done /\ HasBody /\ Verified
    /\ Prop(Prop(Body, "event-data"), "timestamp") = Huge
    /\ Truthy(Prop(Prop(Body, "event-data"), "event"))
    /\ Sent.status = 200
    /\ Get(Sent.body, "error") = S("Processing failed but webhook acknowledged")

\* the payload names no event kind
NoEventKind ==
    LET ed == Prop(Body, "event-data")
    IN  \/ ed = Undef
        \/ ed.t = "object" /\ Get(ed, "event") \in {Undef, S("")}

\* C6: a verified payload without event kind is not classified: null is
\* returned and the response is a 200 with received true and an error note,
\* without a status and without fullEventData.
C6_MissingEventKind ==
    (Done /\ HasBody /\ Verified /\ NoEventKind) =>
        /\ ret = Null
        /\ Len(res) = 1
        /\ Sent.status = 200
        /\ Get(Sent.body, "received") = B(TRUE)
        /\ NonEmpty(Get(Sent.body, "error"))
        /\ "status" \notin DOMAIN Sent.body.o
        /\ "fullEventData" \notin DOMAIN Sent.body.o

\* a verified request with an event-data object that has no event field ended
C6_Witness ==
    /\ Done /\ HasBody /\ Verified
    /\ Prop(Body, "event-data") = EmptyObj
    /\ Get(Sent.body, "error") = S("Missing event type")

-----------------------------------------------------------------------------
(* Where the triple is read *)

RequestCalled == call.fn = "verifyRequestSignature"

\* the body of the request given to verifyRequestSignature, when it has one
CallHasBody == call.req.t = "object" /\ Truthy(Prop(call.req, "body"))

\* the body's signature entry is an object with a token, a timestamp and a
\* signature of its own
HoldsTriple(body) ==
    LET sig == Prop(body, "signature")
    IN  /\ sig.t = "object"
        /\ \A f \in {"token", "timestamp", "signature"} : Get(sig, f) # Undef

\* the triple of the signature object, as it stands
NestedTriple(body) ==
    LET sig == Prop(body, "signature")
    IN  [token |-> Get(sig, "token"), timestamp |-> Get(sig, "timestamp"),
         signature |-> Get(sig, "signature")]

\* each component from the signature object when the object has a non-empty
\* one, from the top level otherwise
LocatedTriple(body) ==
    LET sig == Prop(body, "signature")
        pick(f) == IF sig.t = "object" /\ NonEmpty(Get(sig, f))
                   THEN Get(sig, f) ELSE Prop(body, f)
    IN  [token |-> pick("token"), timestamp |-> pick("timestamp"),
         signature |-> pick("signature")]

\* the stated condition of a valid signature, for a triple
AuthenticTriple(tr, key, t) ==
    Authentic(tr.token, tr.timestamp, tr.signature, key, t)

\* C8 as stated: when the signature entry is an object holding token,
\* timestamp and signature, the triple verified is that of the object,
\* whatever stands at the top level.
C8_TripleFromObjectOnly ==
    /\ (RequestCalled /\ CallHasBody /\ HoldsTriple(Prop(call.req, "body"))) =>
          call.out = Returned(AuthenticTriple(NestedTriple(Prop(call.req, "body")),
                                              DefaultKey(call.signingKey, envKey),
                                              call.at))
    /\ (Done /\ HasBody /\ HoldsTriple(Body)) =>
          (ret # Null => AuthenticTriple(NestedTriple(Body),
                                         DefaultKey(keyArg, envKey), checkedAt))

\* C8 (amended): each of token, timestamp and signature is taken from the
\* signature object when the object holds a non-empty value for it, even if
\* the top level holds another value, and from the top-level field of the same
\* name when the object lacks it or holds it empty; with a plain string as
\* signature entry all three come from the top level.  verifyRequestSignature
\* and mailgunWebhook verify exactly that triple.
C8_TripleLocation ==
    /\ (RequestCalled /\ CallHasBody) =>
          call.out = Returned(AuthenticTriple(LocatedTriple(Prop(call.req, "body")),
                                              DefaultKey(call.signingKey, envKey),
                                              call.at))
    /\ (Done /\ HasBody) =>
          /\ isValid = B(AuthenticTriple(LocatedTriple(Body),
                                         DefaultKey(keyArg, envKey), checkedAt))
          /\ (ret # Null => isValid = B(TRUE))

\* verifyRequestSignature accepted a triple held by the signature object while
\* other values stood at the top level
C8_Witness ==
    /\ RequestCalled /\ CallHasBody
    /\ HoldsTriple(Prop(call.req, "body"))
    /\ Prop(Prop(call.req, "body"), "token") = S("decoy")
    /\ NestedTriple(Prop(call.req, "body")).token = S("tok1")
    /\ call.out = Returned(TRUE)

-----------------------------------------------------------------------------
(* Rejections *)

\* why the verification of the running call failed, in the words of the
\* logging verifier; "" when it did not fail
RejectionReason ==
    LET tr == WebhookTriple(Body)
        l  == verifyMailgunSignatureLogged(tr.token, tr.timestamp, tr.signature,
                                           DefaultKey(keyArg, envKey), checkedAt)
    IN  IF l.v THEN "" ELSE IF l.log = "" THEN "Digest mismatch" ELSE l.log

RejectionReasons ==
    {"MAILGUN_WEBHOOK_SIGNING_KEY missing", "Missing required signature parameters",
     "Invalid timestamp format", "Expired timestamp", "Signature verification error",
     "Digest mismatch"}

\* C9: whatever makes the verification fail (no key, a missing parameter, a
\* timestamp that is no number, a timestamp outside the window, another
\* digest), verifyMailgunSignature returns false and mailgunWebhook answers
\* with the same status and the same error text.
C9_FailuresAlike ==
    /\ \A r \in RejectionReasons :
          (Done /\ HasBody /\ RejectionReason = r) =>
              /\ Len(res) = 1
              /\ Sent.status = 401
              /\ Get(Sent.body, "error") = S("Invalid signature")
              /\ Sent.body = O([received |-> B(FALSE), error |-> S("Invalid signature"),
                                correlationId |-> correlationId])
              /\ ret = Null
    /\ VerifyCalled =>
          (call.logged.log \in RejectionReasons => call.out = Returned(FALSE))

\* a request replayed after the window was answered like any other failure
C9_Witness ==
    /\ Done /\ HasBody
    /\ RejectionReason = "Expired timestamp"
    /\ Sent.status = 401

-----------------------------------------------------------------------------
(* Without a signing key *)

\* no key argument, and the environment default unset or empty
NoKey == keyArg = Undef /\ ~Truthy(envKey)

-----------------------------------------------------------------------------
(* processEmailData: what the claims speak of *)

ProcessCalled == call.fn = "processEmailData"

\* the request given to processEmailData has a body
InboundHasBody == call.req.t = "object" /\ Truthy(Prop(call.req, "body"))

\* C7: processEmailData throws only when the request or its body is absent;
\* with a body present it returns a record, whatever the fields hold.
C7_ThrowsOnlyWithoutBody ==
    ProcessCalled =>
        /\ call.out.threw <=> ~InboundHasBody
        /\ InboundHasBody => Get(call.out.v, "emailData").t = "object"

-----------------------------------------------------------------------------
(* mailgunWebhook: how a call ends *)

\* event processing of the request raises an error
ProcessingRaises == ProcessEvent(Body, correlationId, now).threw

RecordReturned == ProcessCalled /\ ~call.out.threw

\* the record it returned
Record == Get(call.out.v, "emailData")

\* a field of the body it was given
Field(f) == Prop(Prop(call.req, "body"), f)

\* C12: in every record processEmailData returns, receivedAt and timestamp
\* are equal, whatever the wall clock does meanwhile.
C12_SameInstant ==
    RecordReturned => Get(Record, "receivedAt") = Get(Record, "timestamp")

\* C13: attachmentCount is the numeric value of the raw attachment-count field
\* when that field is numeric, and 0 when it is absent or not numeric,
\* whatever files were uploaded; it is always a non-negative integer.
C13_CountFromField ==
    RecordReturned =>
        LET raw   == Field("attachment-count")
            count == Get(Record, "attachmentCount")
        IN  /\ count.t = "number" /\ count.n >= 0
            /\ count = IF Truthy(raw) /\ ToNumber(raw).t = "number"
                       THEN ToNumber(raw) ELSE N(0)

\* the headers mapping of the record
Headers == Get(Record, "headers")

\* C14: the cc list is extracted from the body's cc field when that field is
\* not empty, whatever the headers say; from header Cc only when the field is
\* absent or empty; from header CC only when Cc too is absent or empty.
C14_CcPrecedence ==
    RecordReturned =>
        LET cc   == Field("cc")
            Cc   == Get(Headers, "Cc")
            CC   == Get(Headers, "CC")
            list == Get(Record, "cc")
        IN  /\ Truthy(cc) => list = StringList(extractEmails(cc))
            /\ (~Truthy(cc) /\ Truthy(Cc)) => list = StringList(extractEmails(Cc))
            /\ (~Truthy(cc) /\ ~Truthy(Cc) /\ Truthy(CC)) =>
                  list = StringList(extractEmails(CC))
            /\ (~Truthy(cc) /\ ~Truthy(Cc) /\ ~Truthy(CC)) => list = A(<<>>)

\* a body whose cc field and Cc header disagree gave the field's address
C14_Witness ==
    /\ RecordReturned
    /\ Field("cc") = S("z@d.com")
    /\ Get(Headers, "Cc") = S("c@x.com")
    /\ Get(Record, "cc") = A(<<S("z@d.com")>>)

\* the text holds at least one address
YieldsAddress(v) == extractEmails(v) # <<>>

\* C15 as first stated: to is extracted from the recipient field and falls
\* back to header To, then header TO, when the field before yields no
\* address, so that to is empty only if none of the three holds an address;
\* from is extracted from sender and falls back to the from field likewise.
C15_FallbackWhenNothingYielded ==
    RecordReturned =>
        LET recipient == Field("recipient")
            To == Get(Headers, "To")
            TO == Get(Headers, "TO")
            to == Get(Record, "to")
        IN  /\ YieldsAddress(recipient) => to = StringList(extractEmails(recipient))
            /\ (~YieldsAddress(recipient) /\ YieldsAddress(To)) =>
                  to = StringList(extractEmails(To))
            /\ (~YieldsAddress(recipient) /\ ~YieldsAddress(To) /\ YieldsAddress(TO)) =>
                  to = StringList(extractEmails(TO))
            /\ to = A(<<>>) =>
                  ~YieldsAddress(recipient) /\ ~YieldsAddress(To) /\ ~YieldsAddress(TO)
            /\ Get(Record, "from") =
                  S(IF extractEmail(Field("sender")) # ""
                    THEN extractEmail(Field("sender"))
                    ELSE extractEmail(Field("from")))

\* C15: to is the address list extracted from the first of the recipient
\* field, header To and header TO that is not empty, and the empty list when
\* all three are absent or empty; from is extracted from the sender field
\* when that is not empty and from the from field otherwise.
C15_ToPrecedence ==
    RecordReturned =>
        LET recipient == Field("recipient")
            To == Get(Headers, "To")
            TO == Get(Headers, "TO")
            to == Get(Record, "to")
        IN  /\ Truthy(recipient) => to = StringList(extractEmails(recipient))
            /\ (~Truthy(recipient) /\ Truthy(To)) => to = StringList(extractEmails(To))
            /\ (~Truthy(recipient) /\ ~Truthy(To) /\ Truthy(TO)) =>
                  to = StringList(extractEmails(TO))
            /\ (~Truthy(recipient) /\ ~Truthy(To) /\ ~Truthy(TO)) => to = A(<<>>)
            /\ Get(Record, "from") =
                  S(extractEmail(IF Truthy(Field("sender"))
                                 THEN Field("sender") ELSE Field("from")))

\* an empty recipient field and no To header: the list came from header TO
C15_Witness ==
    /\ RecordReturned
    /\ Field("recipient") = S("")
    /\ Get(Headers, "To") = Undef
    /\ Get(Headers, "TO") = S("T <t@y.com>, u@y.com")
    /\ Get(Record, "to") = A(<<S("t@y.com"), S("u@y.com")>>)

-----------------------------------------------------------------------------
(* parseHeaders, extractEmail, extractEmails: what the claims speak of *)

ParseCalled == call.fn = "parseHeaders"

\* C16: parseHeaders never throws and always returns a list: a list is
\* returned as it is, and every other input gives a list, the empty one when
\* the input is absent or cannot be decoded into a list.
C16_AlwaysAList ==
    ParseCalled =>
        /\ ~call.out.threw
        /\ IsArray(call.out.v)
        /\ IsArray(call.arg) => call.out.v = call.arg
        /\ ~Truthy(call.arg) => call.out.v = A(<<>>)

-----------------------------------------------------------------------------
(* processEmailData: the headers of the record *)

\* the header list processEmailData parsed
ParsedHeaders == parseHeaders(Field("message-headers"))

\* entry i of the list is a list of exactly n elements
EntryOf(i, n) ==
    LET e == ParsedHeaders.a[i] IN IsArray(e) /\ Len(e.a) = n

\* entry i of the list is a list of two or more elements
EntryAtLeast(i, n) ==
    LET e == ParsedHeaders.a[i] IN IsArray(e) /\ Len(e.a) >= n

\* the name and the value of an entry
NameOf(i) == ToStr(ParsedHeaders.a[i].a[1])
ValueOf(i) == ParsedHeaders.a[i].a[2]

\* C17 as first stated: the headers mapping holds, for every name in the
\* list, the value of the last entry with that name, and every key of the
\* mapping is the name of some two-element entry of the list.
C17_KeysOfTwoElementEntries ==
    (RecordReturned /\ IsArray(ParsedHeaders)) =>
        LET idx == 1..Len(ParsedHeaders.a)
        IN  /\ \A i \in idx : EntryOf(i, 2) =>
                  /\ NameOf(i) \in DOMAIN Headers.o
                  /\ \E j \in idx :
                        /\ EntryAtLeast(j, 2) /\ NameOf(j) = NameOf(i)
                        /\ \A k \in idx :
                              (EntryAtLeast(k, 2) /\ NameOf(k) = NameOf(i)) => k <= j
                        /\ Headers.o[NameOf(i)] = ValueOf(j)
            /\ \A key \in DOMAIN Headers.o :
                  \E i \in idx : EntryOf(i, 2) /\ NameOf(i) = key

\* C17: header projection is last-write-wins over the entries that are lists
\* of two or more elements, the first element (as text) being the name and
\* the second the value: the mapping holds for every such name the value of
\* the last such entry with that name, and it has no other key.
C17_LastWriteWins ==
    (RecordReturned /\ IsArray(ParsedHeaders)) =>
        LET idx == 1..Len(ParsedHeaders.a)
        IN  /\ \A i \in idx : EntryAtLeast(i, 2) =>
                  /\ NameOf(i) \in DOMAIN Headers.o
                  /\ \E j \in idx :
                        /\ EntryAtLeast(j, 2) /\ NameOf(j) = NameOf(i)
                        /\ \A k \in idx :
                              (EntryAtLeast(k, 2) /\ NameOf(k) = NameOf(i)) => k <= j
                        /\ Headers.o[NameOf(i)] = ValueOf(j)
            /\ \A key \in DOMAIN Headers.o :
                  \E i \in idx : EntryAtLeast(i, 2) /\ NameOf(i) = key

\* a list that names To twice gave the value of the second entry
C17_Witness ==
    /\ RecordReturned /\ IsArray(ParsedHeaders)
    /\ Len(ParsedHeaders.a) = 3
    /\ ParsedHeaders.a[1] = A(<<S("To"), S("h@x.com")>>)
    /\ ParsedHeaders.a[2] = A(<<S("To"), S("i@x.com")>>)
    /\ Get(Headers, "To") = S("i@x.com")

\* the header the message id is taken from: Message-ID, else Message-Id
IdHeader ==
    IF Truthy(Get(Headers, "Message-ID")) THEN Get(Headers, "Message-ID")
    ELSE Get(Headers, "Message-Id")

\* s without a "<" at its start and without a ">" at its end
Unbracketed(s) ==
    LET lo == IF Len(s) > 0 /\ SubSeq(s, 1, 1) = "<" THEN 2 ELSE 1
        hi == IF Len(s) >= lo /\ SubSeq(s, Len(s), Len(s)) = ">"
              THEN Len(s) - 1 ELSE Len(s)
    IN  SubSeq(s, lo, hi)

\* C18: messageId is the value of header Message-ID, else Message-Id, without
\* the angle brackets at its ends and then trimmed; it is null, never the
\* empty string, when the header is absent, not a string, or empty after that.
C18_MessageId ==
    RecordReturned =>
        LET id == Get(Record, "messageId")
        IN  /\ id # S("")
            /\ id = Null \/ id.t = "string"
            /\ (~Truthy(IdHeader) \/ IdHeader.t # "string") => id = Null
            /\ (Truthy(IdHeader) /\ IdHeader.t = "string") =>
                  id = IF Trim(Unbracketed(IdHeader.s)) = "" THEN Null
                       ELSE S(Trim(Unbracketed(IdHeader.s)))

\* a bracketed Message-ID gave the id between the brackets
C18_Witness ==
    /\ RecordReturned
    /\ Get(Headers, "Message-ID") = S("<m1@x.com>")
    /\ Get(Record, "messageId") = S("m1@x.com")

ExtractCalled == call.fn = "extractEmail"

\* s[i..j] is a "<", some text, and a ">"
Bracketed(s, i, j) ==
    /\ 1 <= i /\ i + 2 <= j /\ j <= Len(s)
    /\ SubSeq(s, i, i) = "<" /\ SubSeq(s, j, j) = ">"

\* s[i..j] is the first bracketed part of s: none starts before i, and none
\* that starts at i ends before j
FirstBracketed(s, i, j) ==
    /\ Bracketed(s, i, j)
    /\ \A a \in 1..Len(s), b \in 1..Len(s) :
          Bracketed(s, a, b) => a > i \/ (a = i /\ b >= j)

\* C19: extractEmail of a string that holds a "<", some text and a ">" is the
\* trimmed text between the first such pair; of any other string it is the
\* trimmed string; of an empty or non-string input it is the empty string.
C19_ExtractEmail ==
    ExtractCalled =>
        LET v == call.arg
            r == call.out.v
        IN  /\ ~call.out.threw /\ r.t = "string"
            /\ (v.t # "string" \/ v.s = "") => r = S("")
            /\ (v.t = "string" /\ v.s # "") =>
                  /\ \A i \in 1..Len(v.s), j \in 1..Len(v.s) :
                        FirstBracketed(v.s, i, j) =>
                            r = S(Trim(SubSeq(v.s, i + 1, j - 1)))
                  /\ (\A i \in 1..Len(v.s), j \in 1..Len(v.s) : ~Bracketed(v.s, i, j))
                        => r = S(Trim(v.s))
            /\ v \in {S("Jane Doe <jane@example.com>"), S("jane@example.com")} =>
                  r = S("jane@example.com")

\* a name followed by an address in brackets gave the address
C19_Witness ==
    /\ ExtractCalled
    /\ call.arg = S("Jane Doe <jane@example.com>")
    /\ call.out.v = S("jane@example.com")

ExtractListCalled == call.fn = "extractEmails"

IsAddress(x) == x # ""

\* C20: extractEmails returns, in the order of the input, the extractEmail
\* result of every comma-separated part that is not empty, duplicates
\* included; no element is the empty string, and an empty or non-string
\* input gives the empty list.
C20_ExtractEmails ==
    ExtractListCalled =>
        LET v == call.arg
            r == call.out.v
        IN  /\ ~call.out.threw /\ IsArray(r)
            /\ \A i \in 1..Len(r.a) : r.a[i].t = "string" /\ r.a[i].s # ""
            /\ (v.t # "string" \/ v.s = "") => r = A(<<>>)
            /\ (v.t = "string" /\ v.s # "") =>
                  LET parts == Split(v.s, ",")
                      each  == [i \in 1..Len(parts) |-> extractEmail(S(parts[i]))]
                  IN  r = StringList(SelectSeq(each, IsAddress))
            /\ v = S("a@x.com, b@y.com,, c@z.com") =>
                  r = A(<<S("a@x.com"), S("b@y.com"), S("c@z.com")>>)
            /\ v = S("a@x.com,a@x.com") => r = A(<<S("a@x.com"), S("a@x.com")>>)

\* a list with an empty part between two commas gave its three addresses
C20_Witness ==
    /\ ExtractListCalled
    /\ call.arg = S("a@x.com, b@y.com,, c@z.com")
    /\ Len(call.out.v.a) = 3
    /\ call.out.v.a[3] = S("c@z.com")

-----------------------------------------------------------------------------
(* mailgunWebhook: the event record *)

\* the event-data object of the request
EventData == Or(Prop(Body, "event-data"), EmptyObj)

\* the call ended with an event record returned
RecordSent == Done /\ ret # Null /\ ret # Pending

\* C21: the record of a verified bounced event has status "bounced", a
\* bouncedAt field, a reason field, the payload's severity or "permanent"
\* when the payload has none, and the code of the payload's delivery-status
\* object in deliveryStatus.code when the payload has that object.
C21_Bounced ==
    (RecordSent /\ Prop(EventData, "event") = S("bounced")) =>
        /\ Verified
        /\ Get(ret, "status") = S("bounced")
        /\ {"bouncedAt", "reason", "severity"} \subseteq DOMAIN ret.o
        /\ Get(ret, "severity") =
              IF Prop(EventData, "severity") \in {Undef, Null, S("")}
              THEN S("permanent") ELSE Prop(EventData, "severity")
        /\ Prop(EventData, "delivery-status").t = "object" =>
              Get(Get(ret, "deliveryStatus"), "code") =
                  Get(Prop(EventData, "delivery-status"), "code")

\* a bounce with delivery-status code 550 and no severity was recorded
C21_Witness ==
    /\ RecordSent
    /\ Prop(EventData, "event") = S("bounced")
    /\ Prop(EventData, "severity") = Undef
    /\ Get(ret, "severity") = S("permanent")
    /\ Prop(Get(ret, "deliveryStatus"), "code") = N(550)

\* the event kinds the switch knows
KnownKinds ==
    {"delivered", "opened", "clicked", "bounced", "complained", "failed",
     "unsubscribed", "stored"}

\* the kind the payload names
Kind == Prop(EventData, "event")

\* C22: every record mailgunWebhook returns has a status: the event kind when
\* that is one of the eight known kinds, "unknown" for every other kind;
\* fullEventData is in the record exactly when the status is "unknown", and
\* it is then the event-data object of the request, unchanged.
C22_StatusOfKind ==
    RecordSent =>
        /\ "status" \in DOMAIN ret.o
        /\ Get(ret, "status") =
              IF Kind.t = "string" /\ Kind.s \in KnownKinds THEN Kind ELSE S("unknown")
        /\ "fullEventData" \in DOMAIN ret.o <=> Get(ret, "status") = S("unknown")
        /\ Get(ret, "status") = S("unknown") =>
              Get(ret, "fullEventData") = Prop(Body, "event-data")

\* an event of a kind the switch does not know was recorded as unknown
C22_Witness ==
    /\ RecordSent
    /\ Kind = S("bazinga")
    /\ Get(ret, "status") = S("unknown")
    /\ Get(ret, "fullEventData") = O([event |-> S("bazinga"), id |-> S("ev2")])

\* the candidates of the common fields, in the order they are tried
EventIdCandidates == <<Prop(EventData, "id"), Prop(EventData, "event-id")>>

MessageIdCandidates ==
    <<OptGet(OptGet(Prop(EventData, "message"), "headers"), "message-id"),
      Prop(EventData, "message-id"), Prop(EventData, "messageId")>>

ReasonCandidates ==
    <<OptGet(Prop(EventData, "delivery-status"), "description"),
      Prop(EventData, "reason"), Prop(EventData, "failure-reason")>>

DomainCandidates ==
    <<OptGet(Prop(EventData, "domain"), "name"), Prop(EventData, "domain")>>

\* the first candidate for which Given holds, or none
FirstGiven(q, Given(_)) ==
    IF \E i \in 1..Len(q) : Given(q[i])
    THEN LET i == CHOOSE i \in 1..Len(q) : Given(q[i]) /\ \A j \in 1..(i - 1) : ~Given(q[j])
         IN  <<q[i]>>
    ELSE <<>>

NotNull(v) == v \notin {Undef, Null}

\* the field of the record is the first candidate that is Given, when one is
TakesFirst(field, q, Given(_)) ==
    FirstGiven(q, Given) # <<>> =>
        (field \in DOMAIN ret.o /\ <<ret.o[field]>> = FirstGiven(q, Given))

\* C23 as first stated: each common field of the record is the first of its
\* candidates that is not null or absent.
C23_FirstNonNull ==
    RecordSent =>
        /\ TakesFirst("eventId", EventIdCandidates, NotNull)
        /\ TakesFirst("messageId", MessageIdCandidates, NotNull)
        /\ TakesFirst("domain", DomainCandidates, NotNull)
        /\ "reason" \in DOMAIN ret.o => TakesFirst("reason", ReasonCandidates, NotNull)

\* C23: each common field of the record is the first of its candidates that
\* is neither null nor absent nor empty (eventId: id, event-id; messageId:
\* message.headers.message-id, message-id, messageId; reason: the
\* delivery-status description, reason, failure-reason; domain: domain.name,
\* domain); a later candidate is used only when every earlier one is so.
C23_FirstNonEmpty ==
    RecordSent =>
        /\ TakesFirst("eventId", EventIdCandidates, Truthy)
        /\ TakesFirst("messageId", MessageIdCandidates, Truthy)
        /\ TakesFirst("domain", DomainCandidates, Truthy)
        /\ "reason" \in DOMAIN ret.o => TakesFirst("reason", ReasonCandidates, Truthy)

\* an event with an empty id and an event-id was recorded under the event-id
C23_Witness ==
    /\ RecordSent
    /\ Prop(EventData, "id") = S("")
    /\ Get(ret, "eventId") = S("e2")
    /\ Get(ret, "messageId") = S("m-top")
    /\ Get(ret, "reason") = S("dns")

\* the timestamp the payload gives
GivenTime == Prop(EventData, "timestamp")

\* the kind-specific time field of the record equals its timestamp
TimeFieldAgrees ==
    Get(ret, "status").s \in KnownKinds =>
        Get(ret, Get(ret, "status").s \o "At") = Get(ret, "timestamp")

\* C24 as first stated: a payload timestamp that is a number of epoch seconds
\* is rendered as ISO-8601 in the record, a text is passed through unchanged,
\* and the kind-specific time field equals the record's timestamp.
C24_EveryNumberRendered ==
    RecordSent =>
        /\ GivenTime.t = "number" => Get(ret, "timestamp") = S(EpochToISO(GivenTime.n))
        /\ GivenTime.t = "string" => Get(ret, "timestamp") = GivenTime
        /\ TimeFieldAgrees

\* C24: a payload timestamp that is a number of epoch seconds other than 0 is
\* rendered as ISO-8601 in the record, and a text that is not empty is passed
\* through unchanged; a timestamp that is absent, 0 or empty is replaced by
\* the time of processing; the kind-specific time field equals the record's
\* timestamp.
C24_EventTimestamp ==
    RecordSent =>
        /\ (GivenTime.t = "number" /\ GivenTime.n # 0) =>
              Get(ret, "timestamp") = S(EpochToISO(GivenTime.n))
        /\ (GivenTime.t = "string" /\ GivenTime.s # "") =>
              Get(ret, "timestamp") = GivenTime
        /\ ~Truthy(GivenTime) =>
              \E t \in checkedAt..now : Get(ret, "timestamp") = S(EpochToISO(t))
        /\ TimeFieldAgrees

\* a stored event dated 100000 seconds before the first clock value was
\* recorded with that instant in ISO-8601, in timestamp and in storedAt
C24_Witness ==
    /\ RecordSent
    /\ Kind = S("stored")
    /\ GivenTime = N(Epoch0 - 100000)
    /\ Epoch0 = 1700000000 => Get(ret, "timestamp") = S("2023-11-13T18:26:40.000Z")
    /\ Get(ret, "storedAt") = Get(ret, "timestamp")

-----------------------------------------------------------------------------
(* mailgunWebhook: the correlation id and the response *)

\* a header of the request
Header(name) == Prop(Prop(req, "headers"), name)

\* the id was made up for the call
Synthesized(id) == id.t = "string" /\ StartsWith(id.s, "mg-")

\* C25: the correlationId of a call is the x-request-id header when the
\* request has one, else the x-correlation-id header when it has one, else a
\* value made up for the call; the one response of the call carries it on
\* every path, and so does the record returned.
C25_CorrelationId ==
    pc # "idle" =>
        /\ Truthy(Header("x-request-id")) => correlationId = Header("x-request-id")
        /\ (~Truthy(Header("x-request-id")) /\ Truthy(Header("x-correlation-id"))) =>
              correlationId = Header("x-correlation-id")
        /\ (~Truthy(Header("x-request-id")) /\ ~Truthy(Header("x-correlation-id"))) =>
              Synthesized(correlationId)
        /\ Done =>
              /\ Sent.status \in {200, 400, 401}
              /\ Get(Sent.body, "correlationId") = correlationId
              /\ ret # Null => Get(ret, "correlationId") = correlationId

\* a request with only an x-correlation-id header was answered, and its
\* record returned, under that id
C25_Witness ==
    /\ RecordSent
    /\ Header("x-request-id") = Undef
    /\ Header("x-correlation-id") = S("cid-2")
    /\ Get(Sent.body, "correlationId") = S("cid-2")
    /\ Get(ret, "correlationId") = S("cid-2")

\* the record has the field, with a value other than undefined
Defined(field) == field \in DOMAIN ret.o /\ ret.o[field] # Undef

\* none of the candidates is in the payload
Unsupplied(q) == \A i \in 1..Len(q) : q[i] = Undef

\* C26: in every event record mailgunWebhook returns, each of eventId,
\* recipient, messageId and domain is present and defined, and it is null
\* when the payload does not supply it.
C26_AbsentIsNull ==
    RecordSent =>
        /\ Defined("eventId") /\ Defined("recipient")
        /\ Defined("messageId") /\ Defined("domain")
        /\ Unsupplied(EventIdCandidates) => Get(ret, "eventId") = Null
        /\ Unsupplied(<<Prop(EventData, "recipient")>>) => Get(ret, "recipient") = Null
        /\ Unsupplied(MessageIdCandidates) => Get(ret, "messageId") = Null
        /\ Unsupplied(DomainCandidates) => Get(ret, "domain") = Null

\* the response carries an event record
CarriesRecord == Sent.status = 200 /\ "event" \in DOMAIN Sent.body.o

\* C28: mailgunWebhook sends exactly one response on every path: none while
\* the call runs, one when it has ended, never two; it returns a value other
\* than null exactly when that response is the 200 that carries an event
\* record, and the value is then the body of the response.
C28_ExactlyOneResponse ==
    /\ ~Done => res = <<>> /\ ret = Pending
    /\ Done =>
          /\ Len(res) = 1
          /\ ret # Pending
          /\ ret # Null <=> CarriesRecord
          /\ ret # Null => ret = Sent.body

\* a click was answered once, with the record that was returned
C28_Witness ==
    /\ Done /\ Len(res) = 1
    /\ Kind = S("clicked")
    /\ CarriesRecord
    /\ ret = Sent.body
    /\ Get(ret, "url") = S("https://x.com/a")

-----------------------------------------------------------------------------
(* verifyMailgunSignature: what it logs *)

\* text s holds text p somewhere
Contains(s, p) == \E i \in 1..(Len(s) - Len(p) + 1) : SubSeq(s, i, i + Len(p) - 1) = p

\* the text of a key or signature value, "" when the value has none
SecretText(v) ==
    CASE v.t = "string" -> v.s
      [] v.t = "number" -> NumberToString(v.n)
      [] OTHER          -> ""

\* a logged argument shows the value
Shows(arg, v) ==
    /\ SecretText(v) # ""
    /\ \/ arg.t = "string" /\ Contains(arg.s, SecretText(v))
       \/ arg.t = "object" /\ \E f \in DOMAIN arg.o : arg.o[f] = v

\* the failure categories the logging verifier writes
LogCategories ==
    {"[MailgunInbound] MAILGUN_WEBHOOK_SIGNING_KEY missing",
     "[MailgunInbound] Missing required signature parameters",
     "[MailgunInbound] Invalid timestamp format",
     "[MailgunInbound] Expired timestamp",
     "[MailgunInbound] Signature verification error:"}

\* C27: what verifyMailgunSignature logs on a failure starts with the failure
\* category, and no argument of the log call shows the signing key or the
\* signature value.
C27_LogWithoutSecrets ==
    (VerifyCalled /\ call.console # <<>>) =>
        /\ call.out = Returned(FALSE)
        /\ call.console[1].t = "string" /\ call.console[1].s \in LogCategories
        /\ \A i \in 1..Len(call.console) :
              /\ ~Shows(call.console[i], call.signingKey)
              /\ ~Shows(call.console[i], call.signature)

-----------------------------------------------------------------------------
(* The inbound router and middleware *)

HandlerCalled == call # NoCall /\ call.fn \in {"router", "middleware"}

\* the form the handled request carries
Form == Get(call.req, "body")

\* the signature field of the form is the digest, under the key in force, of
\* the timestamp field followed by the token field, each taken as text (an
\* absent field reads "undefined")
FormSigned ==
    /\ call.signingKey.t = "string"
    /\ Prop(Form, "signature")
         = S(HmacHex(call.signingKey.s,
                     ToStr(Prop(Form, "timestamp")) \o ToStr(Prop(Form, "token"))))

\* C29: the router and the middleware invoke onEmailReceived at most once for a
\* request, and when they do, the request's signature is the digest under
\* the key in force (if requireSignature is set) and the record handed over
\* has a non-empty from and at least one to address; whenever the callback
\* was invoked, whether it returned or threw, the one response sent is the
\* 200 acknowledgement.
C29_CallbackOnceAfterChecks ==
    HandlerCalled =>
      /\ Len(call.out.invoked) <= 1
      /\ Len(call.out.sent) = 1
      /\ call.out.invoked # <<>> =>
           /\ IsFunction(call.onEmailReceived)
           /\ call.requireSignature => FormSigned
           /\ Get(call.out.invoked[1], "from").s # ""
           /\ Len(Get(call.out.invoked[1], "to").a) >= 1
           /\ call.out.sent = <<Response(200, O([received |-> B(TRUE)]))>>

\* a signed request was handed to a callback that threw, and the single
\* response is the 200 acknowledgement
C29_Witness ==
    /\ HandlerCalled
    /\ call.requireSignature
    /\ call.onEmailReceived = Callback(TRUE)
    /\ FormSigned
    /\ Len(call.out.invoked) = 1
    /\ call.out.sent = <<Response(200, O([received |-> B(TRUE)]))>>

\* one of the three signature fields is absent from the form
FieldMissing ==
    \E f \in {"token", "timestamp", "signature"} : Prop(Form, f) = Undef

\* C30: the router with requireSignature set answers every request that
\* lacks a token, a timestamp or a signature, or whose signature is not the
\* digest under the key in force, with the single response 401, never with
\* a 200.
C30_UnverifiedGets401 ==
    (HandlerCalled /\ call.fn = "router" /\ call.requireSignature
       /\ (FieldMissing \/ ~FormSigned))
      => /\ Len(call.out.sent) = 1
         /\ call.out.sent[1].status = 401

=============================================================================
